---- MODULE Spec2Model ----
(***************************************************************************)
(* Retrieval engines of minhaz-engg/ragapplications.                       *)
(*                                                                         *)
(* The repository holds several variants of one retrieval pipeline.  Each  *)
(* variant is modelled in its own section with its own variables and its   *)
(* own specification:                                                      *)
(*   SpecFinal    graphrag_final.py   GraphRAGIndex (dual index + graph)   *)
(*   SpecGraph3   graphrag3.py        HybridSearchEngine (weighted fusion) *)
(*   SpecConc     graphrag3.py        two sessions on the cached engine    *)
(*   SpecFilters  app_chat_rag2.py    HybridSearchEngine.search, or        *)
(*                app_raptor_chat.py  advanced_search (hard filters)       *)
(*   SpecPrice    graphrag_final.py,  parse_price                          *)
(*                app_chat_rag2.py                                         *)
(*   SpecSession  app_chat_rag.py     corpus loads and the chat handler    *)
(*   SpecText     graphrag3.py,       parse_corpus, tokenizers, brand      *)
(*                graphrag_final.py,  inference and attribute extraction   *)
(*                app_graph_rag.py                                         *)
(*   SpecTwin     graphrag3.py         two engines from one record list    *)
(*   SpecGChat    app_graphrag_chat.py GraphRAGIndex in session_state      *)
(*   SpecLoad,    graphrag_final.py    load_search_engine and the sidebar, *)
(*   SpecLoadFair                      with a user who keeps acting        *)
(*   SpecBudget   app_graph_rag.py     parse_user_constraints              *)
(*   SpecRatings  fix_ratings.py       process_corpus                      *)
(*   SpecLightrag try_lightrag.py      split_entries, parse_entry          *)
(*   SpecInsert   try_lightrag.py      insert_docs                         *)
(*                                                                         *)
(* BM25Okapi (rank_bm25) is a library: its get_scores result is an input,  *)
(* one non-negative score per indexed document for the query at hand.      *)
(***************************************************************************)
EXTENDS Integers, Sequences, FiniteSets, TLC

VARIABLES
    index,      \* graphrag_final.py: the GraphRAGIndex object load_search_engine returns
    search,     \* graphrag_final.py: the last GraphRAGIndex.search call, its locals at return
    engine,     \* graphrag3.py: the HybridSearchEngine object get_engine returns
    g3search,   \* graphrag3.py: the last HybridSearchEngine.search call, its locals at return
    shared,     \* graphrag3.py: the cached engine and the relevance_score fields of its ProductDocs
    sess,       \* graphrag3.py: per session, the position and locals of its script run
    rag2,       \* app_chat_rag2.py: st.session_state.engine, a HybridSearchEngine
    rag2search, \* app_chat_rag2.py: the last HybridSearchEngine.search call
    raptor,     \* app_raptor_chat.py: the (bm25, chunks) pair build_index returns
    raptorsearch, \* app_raptor_chat.py: the last advanced_search call
    price_str,  \* parse_price: the text after "**Price:**" in a product block
    parsed,     \* parse_price: what the parsers return for price_str
    session,    \* app_chat_rag.py: st.session_state
    chat,       \* app_chat_rag.py: the prompt the chat handler handled in this script run
    block,      \* corpus parsers: a product block of the corpus text
    record,  \* corpus parsers: what the parsers and text functions give for block
    twin,  \* graphrag3.py: a record list, the two engines constructed from it, their last results
    gchat,  \* app_graphrag_chat.py: st.session_state and the last search of the session
    loader,  \* graphrag_final.py: the two Streamlit caches, the corpus source, what the sidebar shows
    budget,  \* app_graph_rag.py: a user query and the constraints parsed from it
    ratings,  \* fix_ratings.py: the lines of the input file and of the files two runs write
    lightrag,  \* try_lightrag.py: a corpus file and the documents load_markdown_corpus gives
    insert  \* try_lightrag.py: the semaphore of insert_docs and its worker tasks by position

finalVars == <<index, search>>
g3Vars == <<engine, g3search>>
concVars == <<shared, sess>>
rag2Vars == <<rag2, rag2search>>
raptorVars == <<raptor, raptorsearch>>
priceVars == <<price_str, parsed>>
sessionVars == <<session, chat>>
textVars == <<block, record>>
vars == <<finalVars, g3Vars, concVars, rag2Vars, raptorVars, priceVars, sessionVars,
         textVars, twin, gchat, loader, budget, ratings, lightrag, insert>>

\* Each variant is a program of its own: a step of the variant s leaves the
\* variables of the other variants alone.
Frame(s) ==
    /\ IF s = "final" THEN TRUE ELSE UNCHANGED finalVars
    /\ IF s = "graph3" THEN TRUE ELSE UNCHANGED g3Vars
    /\ IF s = "conc" THEN TRUE ELSE UNCHANGED concVars
    /\ IF s = "rag2" THEN TRUE ELSE UNCHANGED rag2Vars
    /\ IF s = "raptor" THEN TRUE ELSE UNCHANGED raptorVars
    /\ IF s = "price" THEN TRUE ELSE UNCHANGED priceVars
    /\ IF s = "session" THEN TRUE ELSE UNCHANGED sessionVars
    /\ IF s = "text" THEN TRUE ELSE UNCHANGED textVars
    /\ IF s = "twin" THEN TRUE ELSE UNCHANGED twin
    /\ IF s = "gchat" THEN TRUE ELSE UNCHANGED gchat
    /\ IF s = "load" THEN TRUE ELSE UNCHANGED loader
    /\ IF s = "budget" THEN TRUE ELSE UNCHANGED budget
    /\ IF s = "ratings" THEN TRUE ELSE UNCHANGED ratings
    /\ IF s = "lightrag" THEN TRUE ELSE UNCHANGED lightrag
    /\ IF s = "insert" THEN TRUE ELSE UNCHANGED insert

----------------------------------------------------------------------------
(* Helpers: Python list idioms                                             *)

Min(a, b) == IF a < b THEN a ELSE b

Max(a, b) == IF a > b THEN a ELSE b

Range(s) == {s[i] : i \in DOMAIN s}

\* s[:n] for n >= 0
Take(s, n) == SubSeq(s, 1, Min(n, Len(s)))

\* None: the absent value of an Optional field or of a dict key; it is no price
None == -1

\* bool(x) for a number or None
Truthy(x) == x # None /\ x # 0

\* a in b, for two strings taken as sequences of words
Contains(a, b) ==
    \E i \in 1..(Len(b) - Len(a) + 1) : SubSeq(b, i, i + Len(a) - 1) = a

\* max(arr), min(arr) of a non-empty sequence
SeqMax(arr) == CHOOSE x \in Range(arr) : \A y \in Range(arr) : y <= x

SeqMin(arr) == CHOOSE x \in Range(arr) : \A y \in Range(arr) : x <= y

\* [i for i in range(n) if i in S]
IndicesIn(n, S) ==
    LET In(i) == i \in S
    IN  SelectSeq([i \in 1..n |-> i], In)

\* sorted(range(len(scores)), key=lambda i: scores[i], reverse=True):
\* a stable sort, so equal scores keep their index order
SortedIndicesDesc(scores) ==
    LET n == Len(scores)
        Rank(i) == Cardinality({j \in 1..n : \/ scores[j] > scores[i]
                                             \/ (scores[j] = scores[i] /\ j < i)}) + 1
    IN  [p \in 1..n |-> CHOOSE i \in 1..n : Rank(i) = p]

\* all sequences over S of length 0..n
SeqsUpTo(S, n) == UNION {[1..m -> S] : m \in 0..n}

NoDuplicates(s) == \A i, j \in DOMAIN s : i # j => s[i] # s[j]

RECURSIVE Flatten(_)
\* the concatenation of a sequence of sequences
Flatten(ss) == IF ss = <<>> THEN <<>> ELSE Head(ss) \o Flatten(Tail(ss))

\* [d.doc_id for d in docs]
IdsOf(ds) == [i \in DOMAIN ds |-> ds[i].doc_id]

----------------------------------------------------------------------------
(* networkx.Graph as the code uses it: adjacency lists in insertion order  *)

ProductNode(doc_id) == [type |-> "product", key |-> doc_id]

\* f"BRAND:{doc.brand}"
BrandNode(brand) == [type |-> "brand", key |-> brand]

\* f"CAT:{doc.category}"
CatNode(category) == [type |-> "category", key |-> category]

EmptyGraph == [n \in {} |-> <<>>]

AddNode(g, u) == IF u \in DOMAIN g THEN g ELSE g @@ (u :> <<>>)

AddEdge(g, u, v) ==
    LET g1 == AddNode(AddNode(g, u), v)
    IN  [g1 EXCEPT ![u] = IF v \in Range(@) THEN @ ELSE Append(@, v),
                   ![v] = IF u \in Range(@) THEN @ ELSE Append(@, u)]

\* list(graph.neighbors(n)); a node that is not in the graph raises, which
\* both callers swallow (except: pass): no neighbours
Neighbors(g, n) == IF n \in DOMAIN g THEN g[n] ELSE <<>>

\* for node in neighbors(seed): for sib_id in neighbors(node): the visits in order
SiblingWalk(g, seed_id) ==
    LET facets == Neighbors(g, ProductNode(seed_id))
    IN  Flatten([n \in DOMAIN facets |->
                    [m \in DOMAIN Neighbors(g, facets[n]) |->
                        [seed |-> seed_id, via |-> facets[n].type,
                         sib |-> Neighbors(g, facets[n])[m].key]]])

----------------------------------------------------------------------------
(* graphrag_final.py: GraphRAGIndex                                         *)

TOP_K_RETRIEVAL == 20

\* model bounds
MaxDocs == 2
MaxWideDocs == 7
MaxScore == 1

DocIdSeq == <<"p1", "p2", "p3", "p4", "p5", "p6", "p7", "p8", "p9">>

\* SmartTokenizer.tokenize(query), as far as search depends on it: a query
\* is a single term, or has no token at all
Tokenize(query) == IF query = "" THEN <<>> ELSE <<query>>

\* the queries of the dual-index engine
FinalQueries == {"laptop"}

\* A ProductDoc of graphrag_final.py (title, url, price_val, raw_text play no
\* part in search).  score[q]: what BM25Okapi.get_scores gives this record
\* for the query term q, in the index the record is in.
FinalDocs ==
    [doc_id : {"p1", "p2"}, source : {"Daraz", "StarTech", "Unknown"},
     brand : {"generic", "asus"}, category : {"general", "laptops"},
     score : [FinalQueries -> 0..MaxScore]]

\* a longer corpus of one brand with one DocID per block; f gives each
\* block its source and score
FinalWideCorpus(f) ==
    [i \in DOMAIN f |-> [doc_id |-> DocIdSeq[i], source |-> f[i].source,
                         brand |-> "asus", category |-> "general",
                         score |-> f[i].score]]

FinalWideKinds == [source : {"Daraz", "StarTech"}, score : [FinalQueries -> 0..MaxScore]]

\* 'daraz' in d.source.lower()
IsDaraz(source) == source = "Daraz"

\* 'startech' in d.source.lower()
IsStartech(source) == source = "StarTech"

\* {d.doc_id: d for d in docs}: the last record of an id wins
DocMap(docs) ==
    [id \in Range(IdsOf(docs)) |->
        docs[CHOOSE i \in DOMAIN docs :
                /\ docs[i].doc_id = id
                /\ \A j \in DOMAIN docs : docs[j].doc_id = id => j <= i]]

\* BM25Okapi(tokenized_corpus), or None for an empty list (corpus_size 0)
FinalBuildBm25(doc_list) ==
    [corpus_size |-> Len(doc_list),
     scores |-> [i \in DOMAIN doc_list |-> doc_list[i].score]]

RECURSIVE Sum(_)
Sum(s) == IF s = <<>> THEN 0 ELSE Head(s) + Sum(Tail(s))

\* bm25_idx.get_scores(tokenized_query): one score per indexed document, the
\* sum of its scores for the terms of the query
get_scores(bm25_idx, tokenized_query) ==
    [i \in DOMAIN bm25_idx.scores |->
        Sum([t \in DOMAIN tokenized_query |-> bm25_idx.scores[i][tokenized_query[t]]])]

RECURSIVE FinalGraphFrom(_, _, _)
FinalGraphFrom(g, docs, i) ==
    IF i > Len(docs) THEN g
    ELSE LET doc == docs[i]
             p == ProductNode(doc.doc_id)
             g0 == AddNode(g, p)
             g1 == IF doc.brand # "" /\ doc.brand \notin {"generic", "unknown", "other"}
                   THEN AddEdge(g0, p, BrandNode(doc.brand)) ELSE g0
             g2 == IF doc.category # "" /\ doc.category \notin {"general", "unknown"}
                   THEN AddEdge(g1, p, CatNode(doc.category)) ELSE g1
         IN  FinalGraphFrom(g2, docs, i + 1)

FinalBuildKnowledgeGraph(docs) == FinalGraphFrom(EmptyGraph, docs, 1)

\* GraphRAGIndex.__init__
GraphRAGIndex(docs) ==
    LET docs_daraz == SelectSeq(docs, LAMBDA d : IsDaraz(d.source))
        docs_startech == SelectSeq(docs, LAMBDA d : IsStartech(d.source))
    IN  [doc_map |-> DocMap(docs),
         graph |-> FinalBuildKnowledgeGraph(docs),
         docs_daraz |-> docs_daraz,
         docs_startech |-> docs_startech,
         bm25_daraz |-> FinalBuildBm25(docs_daraz),
         bm25_startech |-> FinalBuildBm25(docs_startech)]

\* GraphRAGIndex._query_bm25
FinalQueryBm25(bm25_idx, doc_source, tokenized_query, k) ==
    IF bm25_idx.corpus_size = 0 \/ doc_source = <<>> THEN <<>>
    ELSE LET scores == get_scores(bm25_idx, tokenized_query)
             top_n == Take(SortedIndicesDesc(scores), k)
             kept == SelectSeq(top_n, LAMBDA i : scores[i] > 0)
         IN  [j \in DOMAIN kept |-> doc_source[kept[j]]]

\* the round robin of GraphRAGIndex.search (step 3)
Interleave(daraz_hits, startech_hits) ==
    Flatten([i \in 1..Max(Len(daraz_hits), Len(startech_hits)) |->
                (IF i <= Len(daraz_hits) THEN <<daraz_hits[i]>> ELSE <<>>) \o
                (IF i <= Len(startech_hits) THEN <<startech_hits[i]>> ELSE <<>>)])

RECURSIVE FinalExpand(_, _, _, _)
\* the sibling loop of GraphRAGIndex.search (step 4): graph_hits, seen_ids
FinalExpand(walk, seen_ids, graph_hits, doc_map) ==
    IF walk = <<>> THEN graph_hits
    ELSE LET w == Head(walk)
         IN  IF w.sib # w.seed /\ w.sib \notin seen_ids /\ w.sib \in DOMAIN doc_map
             THEN FinalExpand(Tail(walk), seen_ids \cup {w.sib},
                              Append(graph_hits, doc_map[w.sib]), doc_map)
             ELSE FinalExpand(Tail(walk), seen_ids, graph_hits, doc_map)

\* the cut of the graph hits appended to the result: graph_hits[:5]
FinalGraphCut(graph_hits) == Take(graph_hits, 5)

\* GraphRAGIndex.search(query, total_k)
FinalSearchCall(self, query, total_k) ==
    LET half_k == total_k \div 2
        tokenized_query == Tokenize(query)
        daraz_hits == FinalQueryBm25(self.bm25_daraz, self.docs_daraz,
                                     tokenized_query, half_k)
        startech_hits == FinalQueryBm25(self.bm25_startech, self.docs_startech,
                                        tokenized_query, half_k)
        combined == Interleave(daraz_hits, startech_hits)
        seeds == Take(combined, 2)
        walk == Flatten([s \in DOMAIN seeds |-> SiblingWalk(self.graph, seeds[s].doc_id)])
        graph_hits == IF combined = <<>> THEN <<>>
                      ELSE FinalExpand(walk, Range(IdsOf(combined)), <<>>, self.doc_map)
    IN  [called |-> TRUE, total_k |-> total_k,
         daraz_hits |-> daraz_hits, startech_hits |-> startech_hits,
         combined |-> combined, graph_hits |-> graph_hits,
         expanded_results |-> combined \o FinalGraphCut(graph_hits)]

NoSearch ==
    [called |-> FALSE, total_k |-> 0, daraz_hits |-> <<>>, startech_hits |-> <<>>,
     combined |-> <<>>, graph_hits |-> <<>>, expanded_results |-> <<>>]

FinalTotalKs == {1, 2, 4, TOP_K_RETRIEVAL}

\* load_search_engine: parse_corpus, then GraphRAGIndex(docs)
\* the corpora: a few arbitrary records (DocIDs may repeat, the Source line
\* may be missing), or a longer corpus of one brand
FinalInit ==
    /\ \/ \E n \in 0..MaxDocs : \E docs \in [1..n -> FinalDocs] :
             index = GraphRAGIndex(docs)
       \/ \E n \in (MaxDocs + 1)..MaxWideDocs : \E f \in [1..n -> FinalWideKinds] :
             index = GraphRAGIndex(FinalWideCorpus(f))
    /\ search = NoSearch

\* results = index.search(prompt, total_k)
FinalSearch ==
    /\ \E query \in FinalQueries, total_k \in FinalTotalKs :
           search' = FinalSearchCall(index, query, total_k)
    /\ UNCHANGED index
    /\ Frame("final")

\* the state of the section while another section's specification runs
FinalIdle == index = GraphRAGIndex(<<>>) /\ search = NoSearch

----------------------------------------------------------------------------
(* graphrag3.py: HybridSearchEngine                                         *)

\* Config.TOP_K_RETRIEVAL
G3_TOP_K_RETRIEVAL == 15

\* Config.GRAPH_EXPANSION_LIMIT: declared, and read nowhere in graphrag3.py
GRAPH_EXPANSION_LIMIT == 5

\* BM25 scores of a record for a query term: 1 against 4 is a weak match
G3Scores == {0, 1, 4}

\* the queries: one term, or no token at all
G3Queries == {"laptop", ""}

G3Terms == G3Queries \ {""}

\* A ProductDoc of graphrag3.py; score as in FinalDocs, in the single index
G3Docs ==
    [doc_id : {"p1", "p2"}, brand : {"generic", "asus"},
     category : {"general", "unknown", "laptops"}, score : [G3Terms -> G3Scores]]

G3WideCorpus(f) ==
    [i \in DOMAIN f |-> [doc_id |-> DocIdSeq[i], brand |-> "asus",
                         category |-> "general", score |-> f[i]]]

RECURSIVE G3GraphFrom(_, _, _)
G3GraphFrom(g, docs, i) ==
    IF i > Len(docs) THEN g
    ELSE LET doc == docs[i]
             p == ProductNode(doc.doc_id)
             g0 == AddNode(g, p)
             g1 == IF doc.brand # "" /\ doc.brand # "generic"
                   THEN AddEdge(g0, p, BrandNode(doc.brand)) ELSE g0
             g2 == IF doc.category # "" /\ doc.category # "general"
                   THEN AddEdge(g1, p, CatNode(doc.category)) ELSE g1
         IN  G3GraphFrom(g2, docs, i + 1)

\* HybridSearchEngine._build_knowledge_graph
G3BuildKnowledgeGraph(docs) == G3GraphFrom(EmptyGraph, docs, 1)

\* a build that reads the mutable relevance_score of the records into the
\* index: what an engine whose results depend on earlier searches would do
G3BuildBm25Stamped(docs) ==
    [corpus_size |-> Len(docs),
     scores |-> [i \in DOMAIN docs |->
                   [t \in DOMAIN docs[i].score |->
                      IF "relevance_score" \in DOMAIN docs[i]
                      THEN docs[i].score[t] + docs[i].relevance_score.num
                      ELSE docs[i].score[t]]],
     raised |-> docs = <<>>]

\* HybridSearchEngine._build_bm25: BM25Okapi(tokenized_corpus); for an empty
\* corpus rank_bm25 divides the number of tokens by corpus_size = 0 and
\* raises ZeroDivisionError
G3BuildBm25(docs) ==
    [corpus_size |-> Len(docs), scores |-> [i \in DOMAIN docs |-> docs[i].score],
     raised |-> docs = <<>>]

\* HybridSearchEngine.__init__; raised: the constructor did not return
HybridSearchEngine(docs) ==
    LET bm25 == G3BuildBm25(docs)
    IN  [docs |-> docs, doc_map |-> DocMap(docs),
         graph |-> IF bm25.raised THEN EmptyGraph ELSE G3BuildKnowledgeGraph(docs),
         bm25 |-> bm25, raised |-> bm25.raised]

\* A dict in insertion order: keys, and val on them.  The fused scores are
\* kept as integers over the common denominator 10 * max_score.
EmptyDict == [keys |-> <<>>, val |-> [k \in {} |-> 0]]

DictSet(d, k, v) ==
    IF k \in Range(d.keys) THEN [d EXCEPT !.val[k] = v]
    ELSE [keys |-> Append(d.keys, k), val |-> d.val @@ (k :> v)]

\* sorted(candidates.keys(), key=lambda k: candidates[k], reverse=True)
SortedKeysDesc(d) ==
    LET order == SortedIndicesDesc([i \in DOMAIN d.keys |-> d.val[d.keys[i]]])
    IN  [p \in DOMAIN order |-> d.keys[order[p]]]

RECURSIVE G3Lexical(_, _, _, _)
\* step 1: candidates[doc.doc_id] = score / max_score for the positive scores
G3Lexical(top_n_indices, raw_scores, docs, candidates) ==
    IF top_n_indices = <<>> THEN candidates
    ELSE LET idx == Head(top_n_indices)
         IN  IF raw_scores[idx] <= 0
             THEN G3Lexical(Tail(top_n_indices), raw_scores, docs, candidates)
             ELSE G3Lexical(Tail(top_n_indices), raw_scores, docs,
                            DictSet(candidates, docs[idx].doc_id, 10 * raw_scores[idx]))

\* boost = 0.3 if "BRAND:" in node else 0.1, over the common denominator
G3Boost(via, max_score) == IF via = "brand" THEN 3 * max_score ELSE max_score

RECURSIVE G3Expand(_, _, _, _)
\* step 2: the sibling loop over the seeds
G3Expand(walk, candidates, doc_map, max_score) ==
    IF walk = <<>> THEN candidates
    ELSE LET w == Head(walk)
             boost == G3Boost(w.via, max_score)
         IN  IF w.sib = w.seed
             THEN G3Expand(Tail(walk), candidates, doc_map, max_score)
             ELSE IF w.sib \in Range(candidates.keys)
             THEN G3Expand(Tail(walk),
                           DictSet(candidates, w.sib, candidates.val[w.sib] + boost),
                           doc_map, max_score)
             ELSE IF w.sib \in DOMAIN doc_map
             THEN G3Expand(Tail(walk), DictSet(candidates, w.sib, boost),
                           doc_map, max_score)
             ELSE G3Expand(Tail(walk), candidates, doc_map, max_score)

\* step 3: the final selection, sorted(candidates...)[:CFG.TOP_K_RETRIEVAL]
G3FinalIds(candidates) == Take(SortedKeysDesc(candidates), G3_TOP_K_RETRIEVAL)

G3NoSearch ==
    [called |-> FALSE, lexical |-> {}, max_score |-> 1, candidates |-> EmptyDict,
     results |-> <<>>]

\* HybridSearchEngine.search(query)
G3SearchCall(self, query) ==
    LET tokenized_query == Tokenize(query)
        raw_scores == get_scores(self.bm25, tokenized_query)
        top_n_indices == Take(SortedIndicesDesc(raw_scores), G3_TOP_K_RETRIEVAL * 2)
        max_score == IF top_n_indices # <<>> THEN raw_scores[top_n_indices[1]] ELSE 1
        lexical == G3Lexical(top_n_indices, raw_scores, self.docs, EmptyDict)
        top_seeds == Take(SortedKeysDesc(lexical), 3)
        walk == Flatten([s \in DOMAIN top_seeds |-> SiblingWalk(self.graph, top_seeds[s])])
        candidates == G3Expand(walk, lexical, self.doc_map, max_score)
        final_ids == G3FinalIds(candidates)
    IN  IF tokenized_query = <<>> THEN [G3NoSearch EXCEPT !.called = TRUE]
        ELSE [called |-> TRUE, lexical |-> Range(lexical.keys), max_score |-> max_score,
              candidates |-> candidates,
              results |-> [i \in DOMAIN final_ids |-> self.doc_map[final_ids[i]]]]

\* get_engine: parse_corpus, then HybridSearchEngine(docs); the corpora are a
\* few arbitrary records or a longer corpus of one brand
G3Init ==
    /\ \/ \E n \in 0..MaxDocs : \E docs \in [1..n -> G3Docs] :
             engine = HybridSearchEngine(docs)
       \/ \E n \in (MaxDocs + 1)..MaxWideDocs :
             \E f \in [1..n -> [G3Terms -> G3Scores]] :
                engine = HybridSearchEngine(G3WideCorpus(f))
    /\ g3search = G3NoSearch

\* results = engine.search(prompt); get_engine returns None for a constructor
\* that raised, and main then has no engine to search
G3Search ==
    /\ ~engine.raised
    /\ \E query \in G3Queries : g3search' = G3SearchCall(engine, query)
    /\ UNCHANGED engine
    /\ Frame("graph3")

G3Idle == engine = HybridSearchEngine(<<>>) /\ g3search = G3NoSearch

----------------------------------------------------------------------------
(* graphrag3.py under Streamlit: get_engine is @st.cache_resource, so the   *)
(* script runs of all sessions, one thread each, call search on the same   *)
(* HybridSearchEngine and the same ProductDoc objects                      *)

Sessions == {1, 2}

ConcQueries == {"laptop", "phone"}

\* a fused score: num over den
Score(num, den) == [num |-> num, den |-> den]

SameScore(a, b) == a.num * b.den = b.num * a.den

\* the score search computed for the i-th record of its result
ComputedScore(call, i) ==
    Score(call.candidates.val[call.results[i].doc_id], 10 * call.max_score)

SessIdle ==
    [pc |-> "idle", query |-> "", call |-> G3NoSearch, i |-> 0,
     results |-> <<>>, shown |-> <<>>]

\* get_engine, run once for all sessions; ProductDoc.relevance_score = 0.0
ConcInit ==
    /\ \E n \in 1..MaxDocs : \E f \in [1..n -> [ConcQueries -> G3Scores]] :
          LET e == HybridSearchEngine(G3WideCorpus(f))
          IN  shared = [engine |-> e,
                        relevance_score |-> [id \in DOMAIN e.doc_map |-> Score(0, 1)]]
    /\ sess = [t \in Sessions |-> SessIdle]

\* search, steps 1 to 3: they read the index, the graph and doc_map, which
\* nothing writes after construction
ConcRank(t) ==
    /\ sess[t].pc = "idle"
    /\ \E query \in ConcQueries :
          sess' = [sess EXCEPT ![t] =
                      [pc |-> "hydrate", query |-> query,
                       call |-> G3SearchCall(shared.engine, query), i |-> 1,
                       results |-> <<>>, shown |-> <<>>]]
    /\ UNCHANGED shared
    /\ Frame("conc")

\* search, step 4, one turn of the loop: doc.relevance_score = candidates[doc_id]
\* on the ProductDoc of the engine, results.append(doc)
ConcHydrate(t) ==
    /\ sess[t].pc = "hydrate"
    /\ sess[t].i <= Len(sess[t].call.results)
    /\ LET doc_id == sess[t].call.results[sess[t].i].doc_id
       IN  /\ shared' = [shared EXCEPT !.relevance_score[doc_id] =
                                           ComputedScore(sess[t].call, sess[t].i)]
           /\ sess' = [sess EXCEPT ![t].results = Append(@, doc_id),
                                   ![t].i = @ + 1]
    /\ Frame("conc")

\* return results
ConcReturn(t) ==
    /\ sess[t].pc = "hydrate"
    /\ sess[t].i > Len(sess[t].call.results)
    /\ sess' = [sess EXCEPT ![t].pc = "returned"]
    /\ UNCHANGED shared
    /\ Frame("conc")

\* main: the expander reads doc.relevance_score of every result
ConcDisplay(t) ==
    /\ sess[t].pc = "returned"
    /\ sess' = [sess EXCEPT ![t].pc = "idle",
                            ![t].shown = [i \in DOMAIN sess[t].results |->
                                            shared.relevance_score[sess[t].results[i]]]]
    /\ UNCHANGED shared
    /\ Frame("conc")

ConcNext ==
    \E t \in Sessions :
        \/ ConcRank(t)
        \/ ConcHydrate(t)
        \/ ConcReturn(t)
        \/ ConcDisplay(t)

ConcIdle ==
    /\ shared = [engine |-> HybridSearchEngine(<<>>), relevance_score |-> <<>>]
    /\ sess = [t \in Sessions |-> SessIdle]

----------------------------------------------------------------------------
(* app_chat_rag2.py: HybridSearchEngine, hard filters then fusion of the    *)
(* embedding scores and the BM25 scores                                    *)

TOP_K == 75

\* the most products of a corpus of the engines with hard filters
MaxProducts == 2

\* ProductDoc.price_value is a float, 0.0 when parse_price finds no price
Rag2Prices == {0, 50, 200}

Rag2Scores == {0, 1}

Rag2Queries == {"laptop"}

\* what varies in a ProductDoc: sem[q] is the dot product of its embedding
\* with the embedding of the query q, score[q] its BM25 score for q
Rag2Kinds ==
    [price_value : Rag2Prices, sem : [Rag2Queries -> Rag2Scores],
     score : [Rag2Queries -> Rag2Scores]]

Rag2Corpus(f) ==
    [i \in DOMAIN f |-> [doc_id |-> DocIdSeq[i], category |-> <<"laptop">>,
                         price_value |-> f[i].price_value, sem |-> f[i].sem,
                         score |-> f[i].score]]

\* HybridSearchEngine.rebuild_bm25
Rag2RebuildBm25(products) ==
    [corpus_size |-> Len(products),
     scores |-> [i \in DOMAIN products |-> products[i].score]]

\* HybridSearchEngine.generate_embeddings_fresh: corpus_embeddings, kept as
\* the dot products with the query embeddings
Rag2Embeddings(products) == [i \in DOMAIN products |-> products[i].sem]

\* HybridSearchEngine.__init__; client_up: whether the embedding requests of
\* self.client succeed at query time
Rag2Engine(products) ==
    [products |-> products, bm25 |-> Rag2RebuildBm25(products),
     corpus_embeddings |-> Rag2Embeddings(products), client_up |-> TRUE]

\* the filters dict the intent parser hands to search; None: key absent
NoFilters == [max_price |-> None, min_price |-> None, category |-> <<>>]

Rag2Filters ==
    {NoFilters,
     [NoFilters EXCEPT !.max_price = 100],
     [NoFilters EXCEPT !.max_price = 0],
     [NoFilters EXCEPT !.min_price = 100, !.category = <<"gaming", "laptop">>],
     [NoFilters EXCEPT !.category = <<"macbook">>]}

Rag2TopKs == {1, TOP_K}

\* the price filter without its max_price line
Rag2PricePassesNoMax(p, filters) ==
    ~(Truthy(filters.min_price) /\ p.price_value < filters.min_price)

\* search, step 1, the price filter
Rag2PricePasses(p, filters) ==
    /\ ~(Truthy(filters.max_price) /\ p.price_value > filters.max_price)
    /\ ~(Truthy(filters.min_price) /\ p.price_value < filters.min_price)

\* search, step 1, the category filter
Rag2CategoryPasses(p, filters) ==
    filters.category # <<>> =>
        LET q_cat == filters.category
            p_cat == p.category
        IN  \/ Contains(q_cat, p_cat)
            \/ Contains(p_cat, q_cat)
            \/ /\ Contains(<<"laptop">>, q_cat)
               /\ Contains(<<"macbook">>, p_cat) \/ Contains(<<"notebook">>, p_cat)

\* search, step 1: valid_indices
Rag2ValidIndices(products, filters) ==
    LET Valid(i) == /\ Rag2PricePasses(products[i], filters)
                    /\ Rag2CategoryPasses(products[i], filters)
    IN  IndicesIn(Len(products), {i \in DOMAIN products : Valid(i)})

\* norm(arr) is NormNum(arr)[i] / NormDen(arr)
NormDen(arr) ==
    IF arr = <<>> \/ SeqMax(arr) = SeqMin(arr) THEN 1 ELSE SeqMax(arr) - SeqMin(arr)

NormNum(arr) ==
    IF arr = <<>> \/ SeqMax(arr) = SeqMin(arr) THEN [i \in DOMAIN arr |-> 0]
    ELSE [i \in DOMAIN arr |-> arr[i] - SeqMin(arr)]

\* final_scores = 0.7 * norm(sem_scores) + 0.3 * norm(kw_scores), over the
\* common denominator 10 * NormDen(sem_scores) * NormDen(kw_scores)
Rag2Fusion(sem_scores, kw_scores) ==
    [i \in DOMAIN sem_scores |->
        7 * NormNum(sem_scores)[i] * NormDen(kw_scores)
        + 3 * NormNum(kw_scores)[i] * NormDen(sem_scores)]

Rag2NoSearch ==
    [called |-> FALSE, raised |-> FALSE, query |-> "", filters |-> NoFilters,
     top_k |-> TOP_K, valid_indices |-> <<>>, results |-> <<>>]

\* HybridSearchEngine.search(query, filters, top_k)
Rag2SearchCall(self, query, filters, top_k) ==
    LET valid_indices == Rag2ValidIndices(self.products, filters)
        sem_scores == [v \in DOMAIN valid_indices |->
                          self.corpus_embeddings[valid_indices[v]][query]]
        bm25_full == get_scores(self.bm25, Tokenize(query))
        kw_scores == [v \in DOMAIN valid_indices |-> bm25_full[valid_indices[v]]]
        final_scores == Rag2Fusion(sem_scores, kw_scores)
        order == Take(SortedIndicesDesc(final_scores), top_k)
        \* step 2: self.client.embeddings.create(input=query, ...) stands in
        \* no try block
        raised == valid_indices # <<>> /\ ~self.client_up
    IN  [called |-> TRUE, raised |-> raised, query |-> query, filters |-> filters,
         top_k |-> top_k, valid_indices |-> valid_indices,
         results |-> IF raised THEN <<>>
                     ELSE [r \in DOMAIN order |->
                              [doc |-> self.products[valid_indices[order[r]]],
                               score |-> final_scores[order[r]]]]]

\* the engine of a session: built from a loaded or scraped product list;
\* the embedding service is up or down when the queries come
Rag2Init ==
    /\ \E n \in 1..MaxProducts : \E f \in [1..n -> Rag2Kinds] :
          \E client_up \in BOOLEAN :
             rag2 = [Rag2Engine(Rag2Corpus(f)) EXCEPT !.client_up = client_up]
    /\ rag2search = Rag2NoSearch

\* results = st.session_state.engine.search(q_text, filters, top_k=TOP_K)
Rag2Search ==
    /\ rag2.products # <<>>
    /\ \E query \in Rag2Queries, filters \in Rag2Filters, top_k \in Rag2TopKs :
          rag2search' = Rag2SearchCall(rag2, query, filters, top_k)
    /\ UNCHANGED rag2
    /\ Frame("rag2")

Rag2Idle == rag2 = Rag2Engine(<<>>) /\ rag2search = Rag2NoSearch

----------------------------------------------------------------------------
(* app_raptor_chat.py: build_index and advanced_search over product chunks  *)
(* (level 0) and category summaries (level 1)                              *)

DEFAULT_TOPK == 20

\* ProductDoc.price_value is Optional[float]
RaptorPrices == {None, 50, 200}

\* the queries, as _tokenize splits them; a prompt of stop-words or
\* punctuation gives no token
RaptorQueries == {<<>>, <<"laptop">>, <<"laptop", "4060">>}

\* t.isdigit()
IsDigit(t) == t \in {"4060"}

\* the BM25 scores of a chunk per query term: no chunk holds the term 4060
RaptorScores == {("laptop" :> b) @@ ("4060" :> 0) : b \in {0, 1}}

\* what varies in a ProductDoc; the DocID of a block may repeat
RaptorKinds ==
    [doc_id : {"p1", "p2"}, price_value : RaptorPrices, score : RaptorScores]

\* build_index: a level-0 ChunkRec per product
RaptorL0Chunks(products) ==
    [i \in DOMAIN products |->
        [doc_id |-> products[i].doc_id, title |-> <<"laptop">>,
         source |-> "StarTech", price_value |-> products[i].price_value,
         score |-> products[i].score, level |-> 0]]

\* get_raptor_summaries: a level-1 ChunkRec per category, here of the one
\* category of the products
RaptorL1Chunks ==
    << [doc_id |-> "summary_general", title |-> <<"overview", "general">>,
        source |-> "RAPTOR", price_value |-> None,
        score |-> ("laptop" :> 1) @@ ("4060" :> 0), level |-> 1] >>

\* build_index(products, enable_raptor)
RaptorBuildIndex(products, enable_raptor) ==
    LET all_chunks == RaptorL0Chunks(products)
                      \o (IF enable_raptor THEN RaptorL1Chunks ELSE <<>>)
    IN  [bm25 |-> [corpus_size |-> Len(all_chunks),
                   scores |-> [i \in DOMAIN all_chunks |-> all_chunks[i].score]],
         chunks |-> all_chunks]

RaptorNoFilters == [min_price |-> None, max_price |-> None, source |-> ""]

RaptorFilters ==
    {RaptorNoFilters,
     [RaptorNoFilters EXCEPT !.max_price = 100],
     [RaptorNoFilters EXCEPT !.max_price = 0],
     [RaptorNoFilters EXCEPT !.min_price = 100, !.source = "Daraz"]}

RaptorTopKs == {1, DEFAULT_TOPK}

\* advanced_search, the price lines of the filtering
RaptorPricePasses(c, filters) ==
    /\ ~(Truthy(filters.min_price)
         /\ (c.price_value = None \/ c.price_value < filters.min_price))
    /\ ~(Truthy(filters.max_price)
         /\ (c.price_value = None \/ c.price_value > filters.max_price))

\* advanced_search, the source line of the filtering
RaptorSourcePasses(c, filters) ==
    ~(filters.source # "" /\ c.source # "" /\ c.source # "RAPTOR"
      /\ c.source # filters.source)

\* advanced_search, the custom ranking score, 20 times its value
RaptorFinalScore(c, score, q_toks) ==
    LET is_specific == \E i \in DOMAIN q_toks : IsDigit(q_toks[i])
        intersection == Cardinality(Range(q_toks) \cap Range(c.title))
        boosted == 2 * score + 3 * intersection
    IN  IF c.level = 1
        THEN IF is_specific THEN boosted * 5 ELSE boosted * 12
        ELSE IF is_specific THEN boosted * 11 ELSE boosted * 10

RECURSIVE RaptorUnique(_, _, _, _)
\* advanced_search, the diversification loop
RaptorUnique(final_results, seen, unique_results, top_k) ==
    IF final_results = <<>> THEN unique_results
    ELSE LET r == Head(final_results)
         IN  IF r.chunk.doc_id \in seen
             THEN RaptorUnique(Tail(final_results), seen, unique_results, top_k)
             ELSE IF Len(unique_results) + 1 >= top_k
             THEN Append(unique_results, r)
             ELSE RaptorUnique(Tail(final_results), seen \cup {r.chunk.doc_id},
                               Append(unique_results, r), top_k)

RaptorNoSearch ==
    [called |-> FALSE, query |-> <<>>, filters |-> RaptorNoFilters,
     top_k |-> DEFAULT_TOPK, kept |-> <<>>, results |-> <<>>]

\* advanced_search(bm25, chunks, query, top_k, filters)
RaptorSearchCall(bm25_idx, chunks, q_toks, top_k, filters) ==
    LET scores == get_scores(bm25_idx, q_toks)
        Kept(i) == /\ RaptorPricePasses(chunks[i], filters)
                   /\ RaptorSourcePasses(chunks[i], filters)
        kept == IndicesIn(Len(chunks), {i \in DOMAIN chunks : Kept(i)})
        final_results ==
            [k \in DOMAIN kept |->
                [chunk |-> chunks[kept[k]],
                 score |-> RaptorFinalScore(chunks[kept[k]], scores[kept[k]], q_toks)]]
        order == SortedIndicesDesc([k \in DOMAIN final_results |-> final_results[k].score])
        sorted == [k \in DOMAIN order |-> final_results[order[k]]]
    IN  [called |-> TRUE, query |-> q_toks, filters |-> filters, top_k |-> top_k,
         kept |-> kept, results |-> RaptorUnique(sorted, {}, <<>>, top_k)]

\* products = fetch_and_parse_corpus(url); bm25, chunks = build_index(products,
\* True); the summary is missing when its completion call fails
RaptorInit ==
    /\ \E n \in 1..MaxProducts : \E products \in [1..n -> RaptorKinds] :
          \E enable_raptor \in BOOLEAN :
             raptor = RaptorBuildIndex(products, enable_raptor)
    /\ raptorsearch = RaptorNoSearch

\* results = advanced_search(bm25, chunks, query, DEFAULT_TOPK, filters)
RaptorSearch ==
    /\ raptor.chunks # <<>>
    /\ \E q_toks \in RaptorQueries, filters \in RaptorFilters, top_k \in RaptorTopKs :
          raptorsearch' = RaptorSearchCall(raptor.bm25, raptor.chunks, q_toks,
                                           top_k, filters)
    /\ UNCHANGED raptor
    /\ Frame("raptor")

RaptorIdle == raptor = RaptorBuildIndex(<<>>, FALSE) /\ raptorsearch = RaptorNoSearch

----------------------------------------------------------------------------
(* parse_price of graphrag_final.py and of app_chat_rag2.py.  A string is   *)
(* a sequence of characters; "taka" is the one character of the currency   *)
(* sign.  A number is kept as its decimal digits without leading zeros.    *)

\* the most parts of a price field
MaxParts == 4

DigitChars == {"0", "1", "3", "5", "9"}

\* the parts price fields are made of: digit groups with and without a
\* thousands comma, the currency sign, the currency token, a space
PriceParts ==
    { <<"1", "3", ",", "5", "0", "0">>, <<"1", "5", ",", "0", "0", "0">>,
      <<"9", "9">>, <<"taka">>, <<"T", "k">>, <<" ">> }

PriceFields == {Flatten(parts) : parts \in SeqsUpTo(PriceParts, MaxParts)}

\* s.replace(ch, "")
Remove(s, ch) ==
    LET Keep(c) == c # ch
    IN  SelectSeq(s, Keep)

RECURSIVE RunsFrom(_, _, _, _)
RunsFrom(s, chars, cur, acc) ==
    IF s = <<>> THEN (IF cur = <<>> THEN acc ELSE Append(acc, cur))
    ELSE IF Head(s) \in chars
    THEN RunsFrom(Tail(s), chars, Append(cur, Head(s)), acc)
    ELSE RunsFrom(Tail(s), chars, <<>>, IF cur = <<>> THEN acc ELSE Append(acc, cur))

\* re.findall of a character class repeated one or more times: the maximal
\* runs of its characters, left to right
Runs(s, chars) == RunsFrom(s, chars, <<>>, <<>>)

RECURSIVE StripZeros(_)
StripZeros(digits) ==
    IF Len(digits) > 1 /\ Head(digits) = "0" THEN StripZeros(Tail(digits))
    ELSE digits

\* float(digits) for a non-empty string of digits
Float(digits) == StripZeros(digits)

\* 0.0
Zero == <<"0">>

\* val > 100
GreaterThan100(val) ==
    Len(val) > 3 \/ (Len(val) = 3 /\ val # <<"1", "0", "0">>)

\* graphrag_final.py parse_price
FinalParsePrice(s) ==
    IF s = <<>> THEN Zero
    ELSE LET nums == Runs(Remove(s, ","), DigitChars)
         IN  IF nums # <<>> THEN Float(Flatten(nums)) ELSE Zero

RECURSIVE Rag2CleanStr(_)
\* re.sub(r'(...|Tk\.?|BDT)', ' ', price_str): of the tokens of the pattern
\* the fields hold Tk
Rag2CleanStr(s) ==
    IF s = <<>> THEN <<>>
    ELSE IF Len(s) >= 2 /\ s[1] = "T" /\ s[2] = "k"
    THEN <<" ">> \o Rag2CleanStr(SubSeq(s, 3, Len(s)))
    ELSE <<Head(s)>> \o Rag2CleanStr(Tail(s))

RECURSIVE Rag2FirstPlausible(_)
\* the loop over the matches: the first value above 100, else 0.0; float of
\* a match without a digit raises, and the loop goes on
Rag2FirstPlausible(matches) ==
    IF matches = <<>> THEN Zero
    ELSE LET clean_num == Remove(Head(matches), ",")
         IN  IF clean_num # <<>> /\ GreaterThan100(Float(clean_num))
             THEN Float(clean_num)
             ELSE Rag2FirstPlausible(Tail(matches))

\* app_chat_rag2.py parse_price; the fields hold no decimal point
Rag2ParsePrice(s) ==
    IF s = <<>> THEN Zero
    ELSE Rag2FirstPlausible(Runs(Rag2CleanStr(s), DigitChars \cup {","}))

NotParsed == [called |-> FALSE, final |-> Zero, rag2 |-> Zero]

\* a product block of the corpus with its price field
PriceInit ==
    /\ price_str \in PriceFields
    /\ parsed = NotParsed

\* parse_corpus: price_val = parse_price(re_price.search(block).group(1))
ParsePrice ==
    /\ ~parsed.called
    /\ parsed' = [called |-> TRUE, final |-> FinalParsePrice(price_str),
                  rag2 |-> Rag2ParsePrice(price_str)]
    /\ UNCHANGED price_str
    /\ Frame("price")

PriceIdle == price_str = <<>> /\ parsed = NotParsed

----------------------------------------------------------------------------
(* app_chat_rag.py: the script of a session, its corpus loads in the        *)
(* sidebar and its chat handler                                            *)

SessionIds == {"p1", "p2", "p3"}

\* the product lists a load or a scrape can give
ProductLists == SeqsUpTo([doc_id : SessionIds], MaxDocs)

\* build_index(products): a chunk per product, and the BM25 index over the
\* tokenized chunks
BuildIndex(products) ==
    [bm25 |-> [corpus_size |-> Len(products),
               corpus |-> [i \in DOMAIN products |-> products[i].doc_id]],
     chunks |-> [i \in DOMAIN products |-> [doc_id |-> products[i].doc_id]]]

\* st.session_state of a new session: no key is set.  pc is the position of
\* the script run in the chat handler and local holds its variables bm25,
\* chunks
NewSession ==
    [has_products |-> FALSE, products |-> <<>>, has_bm25 |-> FALSE,
     bm25 |-> BuildIndex(<<>>).bm25, chunks |-> <<>>, last_count |-> None,
     pc |-> "idle", local |-> BuildIndex(<<>>)]

NoChat ==
    [answered |-> FALSE, warned |-> FALSE, products |-> <<>>, chunks |-> <<>>,
     bm25 |-> BuildIndex(<<>>).bm25]

SessionInit == session = NewSession /\ chat = NoChat

\* A script run that starts (a click in the sidebar, a prompt) has handled no
\* prompt yet.
\* sidebar, "Load Data": the response is 200 and parse_corpus_text gives
\* products_db.  A click is a rerun request: a script run that stands at an
\* access to st.session_state is stopped there, what it has stored stays, and
\* the new run executes the sidebar
LoadData ==
    /\ \E products_db \in ProductLists :
          session' = [session EXCEPT !.has_products = TRUE, !.products = products_db,
                                     !.pc = "idle", !.local = BuildIndex(<<>>)]
    /\ chat' = NoChat
    /\ Frame("session")

\* sidebar, "Start Scraping": crawl_category gives items
Scrape ==
    /\ \E new_docs \in ProductLists \ {<<>>} :
          session' = [session EXCEPT !.has_products = TRUE, !.products = new_docs,
                                     !.pc = "idle", !.local = BuildIndex(<<>>)]
    /\ chat' = NoChat
    /\ Frame("session")

\* chat handler, no data loaded: the warning
ChatWarn ==
    /\ session.pc = "idle"
    /\ ~session.has_products \/ session.products = <<>>
    /\ chat' = [NoChat EXCEPT !.warned = TRUE]
    /\ UNCHANGED session
    /\ Frame("session")

\* chat handler: the rebuild guard and, when it asks for one, build_index
\* into the local variables
ChatGuard ==
    /\ session.pc = "idle"
    /\ session.has_products /\ session.products # <<>>
    /\ LET products == session.products
       IN  session' = IF ~session.has_bm25 \/ session.last_count # Len(products)
                      THEN [session EXCEPT !.pc = "bm25", !.local = BuildIndex(products)]
                      ELSE [session EXCEPT !.pc = "answer"]
    /\ chat' = NoChat
    /\ Frame("session")

\* chat handler: the three stores into st.session_state, one per step
ChatStore ==
    /\ session.pc \in {"bm25", "chunks", "last_count"}
    /\ session' =
          CASE session.pc = "bm25" ->
                 [session EXCEPT !.has_bm25 = TRUE, !.bm25 = session.local.bm25,
                                 !.pc = "chunks"]
            [] session.pc = "chunks" ->
                 [session EXCEPT !.chunks = session.local.chunks, !.pc = "last_count"]
            [] session.pc = "last_count" ->
                 [session EXCEPT !.last_count = Len(session.products), !.pc = "answer"]
    /\ UNCHANGED chat
    /\ Frame("session")

\* chat handler: get_rag_stream on the index of the session state
ChatAnswer ==
    /\ session.pc = "answer"
    /\ session' = [session EXCEPT !.pc = "idle", !.local = BuildIndex(<<>>)]
    /\ chat' = [answered |-> TRUE, warned |-> FALSE, products |-> session.products,
                chunks |-> session.chunks, bm25 |-> session.bm25]
    /\ Frame("session")

SessionNext == LoadData \/ Scrape \/ ChatWarn \/ ChatGuard \/ ChatStore \/ ChatAnswer

SessionIdle == session = NewSession /\ chat = NoChat

----------------------------------------------------------------------------
(* The text functions of the corpus parsers: tokenizers, brand inference   *)
(* and attribute extraction.  A string is a sequence of characters.        *)

UpperChars ==
    <<"A", "B", "C", "D", "E", "F", "G", "H", "I", "J", "K", "L", "M",
      "N", "O", "P", "Q", "R", "S", "T", "U", "V", "W", "X", "Y", "Z">>

LowerChars ==
    <<"a", "b", "c", "d", "e", "f", "g", "h", "i", "j", "k", "l", "m",
      "n", "o", "p", "q", "r", "s", "t", "u", "v", "w", "x", "y", "z">>

AsciiDigits == {"0", "1", "2", "3", "4", "5", "6", "7", "8", "9"}

\* [a-z0-9]
Alnum == Range(LowerChars) \cup AsciiDigits

\* s.lower()
Lower(s) ==
    LET At(c) == CHOOSE k \in DOMAIN UpperChars : UpperChars[k] = c
    IN  [i \in DOMAIN s |->
            IF s[i] \notin Alnum /\ s[i] \in Range(UpperChars) THEN LowerChars[At(s[i])]
            ELSE s[i]]

\* s.replace(old, new) for single characters
Replace(s, old, new) == [i \in DOMAIN s |-> IF s[i] = old THEN new ELSE s[i]]

\* graphrag3.py SmartTokenizer.tokenize
G3Tokenize(text) ==
    LET clean_text == Replace(Lower(text), "-", " ")
    IN  Runs(clean_text, Alnum)

\* graphrag_final.py SmartTokenizer.tokenize: re.findall of
\* [a-z0-9]+(?:-[a-z0-9]+)*, a hyphen between two alphanumeric characters
\* stays inside the token
FinalTokenize(text0) ==
    LET text == Lower(text0)
        Inside(i) == /\ text[i] = "-" /\ 1 < i /\ i < Len(text)
                     /\ text[i - 1] \in Alnum /\ text[i + 1] \in Alnum
        marked == [i \in DOMAIN text |->
                      IF text[i] = "-" /\ ~Inside(i) THEN " " ELSE text[i]]
    IN  Runs(marked, Alnum \cup {"-"})

\* app_graphrag_chat.py: text.lower().split(), for the index and for the query
ChatTokenize(text) ==
    LET lowered == Lower(text)
    IN  Runs(lowered, Range(lowered) \ {" "})

\* KNOWN_BRANDS, the same set in graphrag3.py and graphrag_final.py
KNOWN_BRANDS ==
    {
      <<"a", "p", "p", "l", "e">>, <<"s", "a", "m", "s", "u", "n", "g">>, <<"x", "i", "a", "o", "m", "i">>,
      <<"r", "e", "a", "l", "m", "e">>, <<"o", "n", "e", "p", "l", "u", "s">>, <<"o", "p", "p", "o">>,
      <<"v", "i", "v", "o">>, <<"g", "o", "o", "g", "l", "e">>, <<"h", "p">>,
      <<"d", "e", "l", "l">>, <<"l", "e", "n", "o", "v", "o">>, <<"a", "s", "u", "s">>,
      <<"a", "c", "e", "r">>, <<"m", "s", "i">>, <<"g", "i", "g", "a", "b", "y", "t", "e">>,
      <<"i", "n", "t", "e", "l">>, <<"a", "m", "d">>, <<"n", "v", "i", "d", "i", "a">>,
      <<"s", "o", "n", "y">>, <<"c", "a", "n", "o", "n">>, <<"n", "i", "k", "o", "n">>,
      <<"f", "u", "j", "i", "f", "i", "l", "m">>, <<"d", "j", "i">>, <<"g", "o", "p", "r", "o">>,
      <<"a", "m", "a", "z", "o", "n">>, <<"l", "o", "g", "i", "t", "e", "c", "h">>, <<"r", "a", "z", "e", "r">>,
      <<"c", "o", "r", "s", "a", "i", "r">>, <<"t", "p", "-", "l", "i", "n", "k">>, <<"d", "-", "l", "i", "n", "k">>,
      <<"n", "e", "t", "g", "e", "a", "r">>, <<"t", "e", "n", "d", "a">>, <<"m", "i", "k", "r", "o", "t", "i", "k">>,
      <<"c", "i", "s", "c", "o">>, <<"h", "u", "i", "o", "n">>, <<"w", "a", "c", "o", "m">>,
      <<"h", "o", "c", "o">>, <<"b", "a", "s", "e", "u", "s">>, <<"a", "n", "k", "e", "r">>,
      <<"r", "e", "m", "a", "x">>, <<"j", "o", "y", "r", "o", "o", "m">>, <<"h", "a", "y", "l", "o", "u">>,
      <<"q", "c", "y">>, <<"s", "o", "u", "n", "d", "p", "e", "a", "t", "s">>, <<"j", "b", "l">>,
      <<"b", "o", "s", "e">>, <<"e", "d", "i", "f", "i", "e", "r">> }

\* STOP_WORDS of graphrag_final.py
STOP_WORDS ==
    {
      <<"n", "e", "w">>, <<"s", "a", "l", "e">>, <<"b", "e", "s", "t">>,
      <<"e", "x", "c", "l", "u", "s", "i", "v", "e">>, <<"o", "f", "f", "e", "r">>, <<"d", "i", "s", "c", "o", "u", "n", "t">>,
      <<"h", "o", "t">>, <<"t", "o", "p">>, <<"o", "r", "i", "g", "i", "n", "a", "l">>,
      <<"p", "r", "e", "m", "i", "u", "m">>, <<"s", "m", "a", "r", "t">>, <<"s", "u", "p", "e", "r">>,
      <<"m", "e", "g", "a">>, <<"c", "o", "m", "b", "o">>, <<"b", "u", "y">>,
      <<"g", "e", "t">> }

\* Config.STOP_WORDS of graphrag3.py
G3_STOP_WORDS ==
    STOP_WORDS \cup {<<"l", "i", "m", "i", "t", "e", "d">>, <<"d", "e", "a", "l">>, <<"f", "l", "a", "s", "h">>, <<"a", "r", "r", "i", "v", "a", "l">> }

Generic == <<"g", "e", "n", "e", "r", "i", "c">>

\* graphrag3.py infer_brand_advanced; a Brand line that is absent gives ""
infer_brand_advanced(title, raw_brand) ==
    IF /\ raw_brand # <<>> /\ Len(raw_brand) > 2
       /\ Lower(raw_brand) \notin {Generic, <<"o", "t", "h", "e", "r">>, <<"n", "u", "l", "l">>}
    THEN Lower(raw_brand)
    ELSE IF title = <<>> THEN Generic
    ELSE LET tokens == G3Tokenize(Lower(title))
             known == SelectSeq(tokens, LAMBDA token : token \in KNOWN_BRANDS)
         IN  IF known # <<>> THEN known[1]
             ELSE IF /\ tokens # <<>>
                     /\ tokens[1] \notin G3_STOP_WORDS
                     /\ Len(tokens[1]) > 2
                     /\ ~(Range(tokens[1]) \subseteq AsciiDigits)
             THEN tokens[1]
             ELSE Generic

\* graphrag_final.py infer_brand_robust; a Brand line that is absent gives None
infer_brand_robust(title, explicitly_tagged_brand) ==
    IF explicitly_tagged_brand # <<>> /\ Lower(explicitly_tagged_brand) # Generic
    THEN Lower(explicitly_tagged_brand)
    ELSE IF title = <<>> THEN Generic
    ELSE LET tokens == FinalTokenize(Lower(title))
             known == SelectSeq(tokens, LAMBDA token : token \in KNOWN_BRANDS)
         IN  IF known # <<>> THEN known[1]
             ELSE IF /\ tokens # <<>>
                     /\ tokens[1] \notin STOP_WORDS
                     /\ Len(tokens[1]) > 2
             THEN tokens[1]
             ELSE Generic

\* the title a block without a heading line gets
UnknownProduct == <<"U", "n", "k", "n", "o", "w", "n", " ", "P", "r", "o", "d", "u", "c", "t">>

NoRecord == [kept |-> FALSE, title |-> <<>>, brand |-> <<>>]

\* graphrag3.py parse_corpus, one block: the record, or none for a block
\* without "**DocID:**"
G3ParseBlock(b) ==
    IF ~b.docid THEN NoRecord
    ELSE LET title == IF b.title # <<>> THEN b.title ELSE UnknownProduct
         IN  [kept |-> TRUE, title |-> title,
              brand |-> infer_brand_advanced(title, b.brand)]

\* graphrag_final.py parse_corpus, one block
FinalParseBlock(b) ==
    IF ~b.docid THEN NoRecord
    ELSE LET title == IF b.title # <<>> THEN b.title ELSE UnknownProduct
         IN  [kept |-> TRUE, title |-> title,
              brand |-> infer_brand_robust(title, b.brand)]

\* re.search(r'(\d+)\s?(units)\s?(kinds)', title, re.IGNORECASE): the number
\* and the unit of the leftmost match, or none.  kinds holds "" when the
\* pattern ends with the unit.
UnitSearch(title, units, kinds) ==
    LET lowered == Lower(title)
        n == Len(title)
        \* the text from position j on starts with one of the words, after
        \* at most one space: the position after it, or 0
        After(j, words) ==
            LET ends == {k \in j..(n + 1) :
                            \E w \in words, sp \in {0, 1} :
                                /\ sp = 1 => (j <= n /\ lowered[j] = " ")
                                /\ k = j + sp + Len(w)
                                /\ k <= n + 1
                                /\ SubSeq(lowered, j + sp, k - 1) = w}
            IN  ends
        \* a match that starts at i: digits up to e - 1, then the unit
        Matches(i) ==
            {<<e, u>> \in ((i + 1)..(n + 1)) \X units :
                /\ \A p \in i..(e - 1) : title[p] \in AsciiDigits
                /\ (e <= n => title[e] \notin AsciiDigits)
                /\ \E k \in After(e, {u}) : After(k, kinds) # {}}
        starts == {i \in 1..n : Matches(i) # {}}
    IN  IF starts = {} THEN <<>>
        ELSE LET i == CHOOSE x \in starts : \A y \in starts : x <= y
                 m == CHOOSE x \in Matches(i) : TRUE
                 us == IF lowered[m[1]] = " " THEN m[1] + 1 ELSE m[1]
             IN  <<SubSeq(title, i, m[1] - 1), SubSeq(title, us, us + Len(m[2]) - 1)>>

\* the brands list of app_graph_rag.py extract_attributes, in its order
Brands ==
    <<
      <<"L", "e", "n", "o", "v", "o">>, <<"H", "P">>, <<"A", "S", "U", "S">>,
      <<"G", "i", "g", "a", "b", "y", "t", "e">>, <<"M", "S", "I">>, <<"D", "e", "l", "l">>,
      <<"A", "c", "e", "r">>, <<"A", "p", "p", "l", "e">>, <<"S", "a", "m", "s", "u", "n", "g">>,
      <<"X", "i", "a", "o", "m", "i">>, <<"R", "e", "a", "l", "m", "e">>, <<"O", "n", "e", "P", "l", "u", "s">>,
      <<"I", "n", "f", "i", "n", "i", "x">>, <<"T", "e", "c", "n", "o">>, <<"V", "i", "v", "o">>,
      <<"O", "p", "p", "o">>, <<"H", "o", "n", "o", "r">>, <<"M", "o", "t", "o", "r", "o", "l", "a">>,
      <<"N", "o", "k", "i", "a">>, <<"W", "a", "l", "t", "o", "n">>, <<"C", "h", "u", "w", "i">>,
      <<"Z", "T", "E">>, <<"S", "o", "n", "y">>, <<"H", "a", "i", "e", "r">>,
      <<"S", "i", "n", "g", "e", "r">>, <<"T", "C", "L">>, <<"D", "a", "h", "u", "a">>,
      <<"H", "i", "k", "v", "i", "s", "i", "o", "n">>, <<"T", "P", "-", "L", "i", "n", "k">>, <<"T", "e", "n", "d", "a">>,
      <<"N", "e", "t", "i", "s">>, <<"M", "e", "r", "c", "u", "s", "y", "s">>, <<"Z", "K", "T", "e", "c", "o">>,
      <<"D", "J", "I">>, <<"G", "o", "P", "r", "o">>, <<"P", "a", "n", "d", "a">>,
      <<"L", "o", "t", "t", "o">>, <<"B", "a", "t", "a">> >>

\* specs = {}
NoFacets == [k \in {} |-> <<>>]

\* app_graph_rag.py extract_attributes
extract_attributes(title, category) ==
    LET title_lower == Lower(title)
        cat_lower == Lower(category)
        In(word) == Contains(word, title_lower)
        hits == SelectSeq(Brands, LAMBDA brand : Contains(Lower(brand), title_lower))
        brand_spec == IF hits # <<>> THEN "Brand" :> hits[1] ELSE NoFacets
        electronics == \E x \in {<<"l", "a", "p", "t", "o", "p">>, <<"p", "h", "o", "n", "e">>, <<"t", "a", "b", "l", "e", "t">>, <<"m", "o", "n", "i", "t", "o", "r">>, <<"r", "o", "u", "t", "e", "r">>, <<"s", "m", "a", "r", "t">>, <<"w", "a", "t", "c", "h">> } :
                          Contains(x, cat_lower)
        fashion == \E x \in {<<"s", "n", "e", "a", "k", "e", "r">>, <<"s", "h", "i", "r", "t">>,
                             <<"p", "o", "l", "o">>, <<"j", "e", "r", "s", "e", "y">>} :
                      Contains(x, cat_lower)
        ram_match == UnitSearch(title, {<<"g", "b">>}, {<<>>})
        ram_spec == IF ram_match # <<>> THEN "RAM" :> (ram_match[1] \o <<"G", "B">>)
                    ELSE NoFacets
        storage_match == UnitSearch(title, {<<"g", "b">>, <<"t", "b">>},
                                    {<<"s", "s", "d">>, <<"h", "d", "d">>, <<"n", "v", "m", "e">>, <<"r", "o", "m">>})
        storage_spec == IF storage_match # <<>>
                        THEN "Storage" :> (storage_match[1] \o storage_match[2])
                        ELSE NoFacets
        cpu ==
            IF In(<<"r", "y", "z", "e", "n">>) THEN
                 IF In(<<" ", "3", " ">>) THEN <<"R", "y", "z", "e", "n", " ", "3">>
                 ELSE IF In(<<" ", "5", " ">>) THEN <<"R", "y", "z", "e", "n", " ", "5">>
                 ELSE IF In(<<" ", "7", " ">>) THEN <<"R", "y", "z", "e", "n", " ", "7">>
                 ELSE IF In(<<" ", "9", " ">>) THEN <<"R", "y", "z", "e", "n", " ", "9">>
                 ELSE <<>>
            ELSE IF In(<<"c", "o", "r", "e">>) \/ In(<<"i", "n", "t", "e", "l">>) THEN
                 IF In(<<"i", "3">>) THEN <<"C", "o", "r", "e", " ", "i", "3">>
                 ELSE IF In(<<"i", "5">>) THEN <<"C", "o", "r", "e", " ", "i", "5">>
                 ELSE IF In(<<"i", "7">>) THEN <<"C", "o", "r", "e", " ", "i", "7">>
                 ELSE IF In(<<"i", "9">>) THEN <<"C", "o", "r", "e", " ", "i", "9">>
                 ELSE <<>>
            ELSE IF In(<<"m", "1">>) THEN <<"A", "p", "p", "l", "e", " ", "M", "1">>
            ELSE IF In(<<"m", "2">>) THEN <<"A", "p", "p", "l", "e", " ", "M", "2">>
            ELSE IF In(<<"m", "3">>) THEN <<"A", "p", "p", "l", "e", " ", "M", "3">>
            ELSE IF In(<<"m", "4">>) THEN <<"A", "p", "p", "l", "e", " ", "M", "4">>
            ELSE IF In(<<"s", "n", "a", "p", "d", "r", "a", "g", "o", "n">>) THEN <<"S", "n", "a", "p", "d", "r", "a", "g", "o", "n">>
            ELSE <<>>
        cpu_spec == IF cpu # <<>> THEN "CPU" :> cpu ELSE NoFacets
        material ==
            IF In(<<"c", "a", "n", "v", "a", "s">>) THEN <<"C", "a", "n", "v", "a", "s">>
            ELSE IF In(<<"m", "e", "s", "h">>) THEN <<"M", "e", "s", "h">>
            ELSE IF In(<<"l", "e", "a", "t", "h", "e", "r">>) THEN <<"L", "e", "a", "t", "h", "e", "r">>
            ELSE IF In(<<"c", "o", "t", "t", "o", "n">>) THEN <<"C", "o", "t", "t", "o", "n">>
            ELSE <<>>
        material_spec == IF material # <<>> THEN "Material" :> material ELSE NoFacets
        colors == SelectSeq(<<<<"b", "l", "a", "c", "k">>, <<"w", "h", "i", "t", "e">>, <<"b", "l", "u", "e">>,
                              <<"r", "e", "d">>, <<"g", "r", "e", "e", "n">>, <<"g", "r", "e", "y">>,
                              <<"y", "e", "l", "l", "o", "w">>, <<"n", "a", "v", "y">>, <<"o", "l", "i", "v", "e">>>>, In)
        \* color.capitalize()
        color_spec == IF colors # <<>>
                      THEN "Color" :> (SubSeq(UpperChars,
                                              CHOOSE k \in DOMAIN LowerChars :
                                                  LowerChars[k] = colors[1][1],
                                              CHOOSE k \in DOMAIN LowerChars :
                                                  LowerChars[k] = colors[1][1])
                                       \o Tail(colors[1]))
                      ELSE NoFacets
    IN  IF electronics THEN brand_spec @@ ram_spec @@ storage_spec @@ cpu_spec
        ELSE IF fashion THEN brand_spec @@ material_spec @@ color_spec
        ELSE brand_spec

\* the words titles are made of
TitleWords ==
    { <<"R", "T", "X">>, <<"4", "0", "6", "0">>, <<"T", "P">>,
      <<"L", "i", "n", "k">>, <<"n", "e", "w">>, <<"A", "s", "u", "s">> }

SamsungTitle == <<"S", "a", "m", "s", "u", "n", "g", " ", "G", "a", "l", "a", "x", "y", " ", "S", "2", "1", " ", "8", "G", "B">>

\* the heading texts of a block: a word, or two words with a word, a hyphen
\* or a space between them, and the title of the Samsung phone
Titles ==
    {Flatten(p) : p \in {<<a>> : a \in TitleWords}
                        \cup (TitleWords \X (TitleWords \cup {<<"-">>, <<" ">>}) \X TitleWords)}
        \cup {SamsungTitle}

\* a product block: whether it holds "**DocID:**", the text of its heading
\* line and of its Brand line ("" when the line is absent), and its category
Blocks ==
    [docid : BOOLEAN, title : Titles \cup {<<>>},
     brand : {<<>>, <<"g", "e", "n", "e", "r", "i", "c">>, <<"O", "t", "h", "e", "r">>, <<"H", "P">>, <<"A", "s", "u", "s">>},
     category : {<<"s", "m", "a", "r", "t", "p", "h", "o", "n", "e", "s">>, <<"G", "e", "n", "e", "r", "a", "l">>}]

NoDoc ==
    [parsed |-> FALSE, g3 |-> NoRecord, final |-> NoRecord,
     tokenized |-> FALSE,
     tokens |-> [g3 |-> <<>>, final |-> <<>>, chat |-> <<>>],
     spaced |-> [g3 |-> <<>>, final |-> <<>>, chat |-> <<>>],
     extracted |-> FALSE, specs |-> NoFacets]

TextInit == block \in Blocks /\ record = NoDoc

\* docs = parse_corpus(text), for the block
ParseCorpus ==
    /\ record' = [NoDoc EXCEPT !.parsed = TRUE, !.g3 = G3ParseBlock(block),
                          !.final = FinalParseBlock(block)]
    /\ UNCHANGED block
    /\ Frame("text")

\* the tokenizers on the title as it is indexed and on the query that writes
\* it with spaces for hyphens
TokenizeText ==
    /\ LET query == Replace(block.title, "-", " ")
       IN  record' = [NoDoc EXCEPT !.tokenized = TRUE,
                      !.tokens = [g3 |-> G3Tokenize(block.title),
                                  final |-> FinalTokenize(block.title),
                                  chat |-> ChatTokenize(block.title)],
                      !.spaced = [g3 |-> G3Tokenize(query),
                                  final |-> FinalTokenize(query),
                                  chat |-> ChatTokenize(query)]]
    /\ UNCHANGED block
    /\ Frame("text")

\* specs = extract_attributes(title, category)
ExtractAttributes ==
    /\ block.title # <<>>
    /\ record' = [NoDoc EXCEPT !.extracted = TRUE,
                          !.specs = extract_attributes(block.title, block.category)]
    /\ UNCHANGED block
    /\ Frame("text")

TextNext == ParseCorpus \/ TokenizeText \/ ExtractAttributes


----------------------------------------------------------------------------
(* graphrag3.py: HybridSearchEngine constructed twice from one record list. *)
(* search writes relevance_score into the ProductDoc objects it returns,   *)
(* so the list the second constructor receives carries the scores of the   *)
(* searches made before it                                                 *)

\* The records of the list: ProductDoc with its relevance_score field (0.0 by
\* default)
TwinDocs ==
    [doc_id : {"p1", "p2"}, brand : {"generic", "asus"}, category : {"laptops"},
     score : [G3Terms -> G3Scores], relevance_score : {Score(0, 1)}]

\* doc.relevance_score = candidates[doc_id], on the objects doc_map holds
Stamp(docs, call) ==
    [i \in DOMAIN docs |->
        IF /\ \E j \in DOMAIN call.results : call.results[j].doc_id = docs[i].doc_id
           /\ \A k \in DOMAIN docs : docs[k].doc_id = docs[i].doc_id => k <= i
        THEN [docs[i] EXCEPT !.relevance_score =
                 Score(call.candidates.val[docs[i].doc_id], 10 * call.max_score)]
        ELSE docs[i]]

\* what a caller reads from a result list: the ids in order, each with the
\* score search computed for it
Hits(call) ==
    [i \in DOMAIN call.results |->
        [doc_id |-> call.results[i].doc_id, score |-> ComputedScore(call, i)]]

TwinIdle ==
    [docs |-> <<>>, first |-> HybridSearchEngine(<<>>),
     second |-> HybridSearchEngine(<<>>), built |-> FALSE, compared |-> FALSE,
     hits1 |-> <<>>, hits2 |-> <<>>]

\* docs = parse_corpus(raw_text); HybridSearchEngine(docs)
TwinInit ==
    \E n \in 1..MaxDocs : \E docs \in [1..n -> TwinDocs] :
        twin = [TwinIdle EXCEPT !.docs = docs, !.first = HybridSearchEngine(docs)]

\* HybridSearchEngine(docs) again, on the same list
TwinBuild ==
    /\ ~twin.built
    /\ twin' = [twin EXCEPT !.second = HybridSearchEngine(twin.docs), !.built = TRUE,
                            !.hits1 = <<>>]
    /\ Frame("twin")

\* search(query) on the first engine and, once it is built, on the second
TwinSearch ==
    /\ \E query \in G3Queries :
          LET call1 == G3SearchCall(twin.first, query)
              docs1 == Stamp(twin.docs, call1)
              call2 == G3SearchCall(twin.second, query)
          IN  twin' = [twin EXCEPT
                         !.docs = IF twin.built THEN Stamp(docs1, call2) ELSE docs1,
                         !.compared = twin.built,
                         !.hits1 = Hits(call1),
                         !.hits2 = IF twin.built THEN Hits(call2) ELSE <<>>]
    /\ Frame("twin")

TwinNext == TwinBuild \/ TwinSearch


----------------------------------------------------------------------------
(* app_graphrag_chat.py: GraphRAGIndex in st.session_state["graph_index"],  *)
(* the Rebuild Index button and the chat input                             *)

\* presses of Rebuild Index a behaviour follows
MaxPresses == 2

RECURSIVE ChatGraphFrom(_, _, _)
\* GraphRAGIndex._build_knowledge_graph: a brand edge unless the brand is
\* empty or 'generic', a category edge unless the category is empty
ChatGraphFrom(g, docs, i) ==
    IF i > Len(docs) THEN g
    ELSE LET doc == docs[i]
             p == ProductNode(doc.doc_id)
             g0 == AddNode(g, p)
             g1 == IF doc.brand # "" /\ doc.brand # "generic"
                   THEN AddEdge(g0, p, BrandNode(doc.brand)) ELSE g0
             g2 == IF doc.category # ""
                   THEN AddEdge(g1, p, CatNode(doc.category)) ELSE g1
         IN  ChatGraphFrom(g2, docs, i + 1)

\* GraphRAGIndex.__init__: the per-source lists and indices as in
\* graphrag_final.py, the graph by its own rule
ChatGraphRAGIndex(docs) ==
    [GraphRAGIndex(docs) EXCEPT !.graph = ChatGraphFrom(EmptyGraph, docs, 1)]

\* graph_hits.add(self.doc_map[sib_id]): ProductDoc is a @dataclass with the
\* default eq=True and without frozen, so its __hash__ is None and set.add
\* raises TypeError; the except clause around the loops of the seed swallows
\* it, and the set stays as it was
SetAdd(graph_hits, doc) == [raised |-> TRUE, graph_hits |-> graph_hits]

RECURSIVE ChatExpandSeed(_, _, _)
\* the loops over the facet nodes and siblings of one seed, up to the first
\* exception
ChatExpandSeed(walk, graph_hits, doc_map) ==
    IF walk = <<>> THEN graph_hits
    ELSE LET w == Head(walk)
         IN  IF w.sib # w.seed /\ w.sib \in DOMAIN doc_map
             THEN LET added == SetAdd(graph_hits, doc_map[w.sib])
                  IN  IF added.raised THEN added.graph_hits
                      ELSE ChatExpandSeed(Tail(walk), added.graph_hits, doc_map)
             ELSE ChatExpandSeed(Tail(walk), graph_hits, doc_map)

RECURSIVE ChatExpand(_, _, _, _)
\* for seed in seeds: try: ... except: pass
ChatExpand(seeds, graph, graph_hits, doc_map) ==
    IF seeds = <<>> THEN graph_hits
    ELSE ChatExpand(Tail(seeds), graph,
                    ChatExpandSeed(SiblingWalk(graph, Head(seeds).doc_id),
                                   graph_hits, doc_map),
                    doc_map)

\* the ranked keyword results, each doc_id once
ChatUnique(combined_candidates) ==
    LET kept == SelectSeq([i \in DOMAIN combined_candidates |-> i],
                          LAMBDA i : \A j \in 1..(i - 1) :
                              combined_candidates[j].doc_id # combined_candidates[i].doc_id)
    IN  [k \in DOMAIN kept |-> combined_candidates[kept[k]]]

ChatNoSearch ==
    [called |-> FALSE, presses |-> 0, built_after |-> 0, seeds |-> <<>>,
     combined_candidates |-> <<>>, final_results |-> <<>>]

\* GraphRAGIndex.search(query, total_k); graph_hits, a set in the code, is the
\* list of its members here: no add succeeds, so the order list(graph_hits)
\* would give them never matters
ChatSearchCall(self, query, total_k) ==
    LET half_k == total_k \div 2
        tokenized_query == Tokenize(query)
        daraz_hits == FinalQueryBm25(self.bm25_daraz, self.docs_daraz,
                                     tokenized_query, half_k)
        startech_hits == FinalQueryBm25(self.bm25_startech, self.docs_startech,
                                        tokenized_query, half_k)
        combined_candidates == Interleave(daraz_hits, startech_hits)
        seeds == Take(combined_candidates, 3)
        graph_hits == ChatExpand(seeds, self.graph, <<>>, self.doc_map)
        unique == ChatUnique(combined_candidates)
        discoveries == SelectSeq(Take(graph_hits, 5),
                                 LAMBDA d : d.doc_id \notin Range(IdsOf(unique)))
    IN  [ChatNoSearch EXCEPT !.called = TRUE, !.seeds = seeds,
                             !.combined_candidates = combined_candidates,
                             !.final_results = unique \o discoveries]

\* st.session_state before the first script run of the session
GChatInit ==
    gchat = [has_index |-> FALSE, graph_index |-> ChatGraphRAGIndex(<<>>),
             built_after |-> 0, presses |-> 0, search |-> ChatNoSearch]

\* if "graph_index" not in st.session_state: fetch_data, st.stop() for an
\* empty answer, else parse_corpus and GraphRAGIndex(docs)
EnsureIndex(state, ok, docs) ==
    IF state.has_index \/ ~ok THEN state
    ELSE [state EXCEPT !.has_index = TRUE, !.graph_index = ChatGraphRAGIndex(docs),
                       !.built_after = state.presses]

\* what fetch_data can answer in a script run: it is called only while the
\* session has no index; "" (ok = FALSE) for a failed request
Fetches(state) ==
    IF state.has_index THEN {[ok |-> FALSE, docs |-> <<>>]}
    ELSE {[ok |-> FALSE, docs |-> <<>>]} \cup
         UNION {[ok : {TRUE}, docs : [1..n -> {d \in FinalDocs : d.category = "laptops"}]] :
                   n \in 0..MaxDocs}

\* a script run without a prompt
GChatRun ==
    /\ \E f \in Fetches(gchat) :
          gchat' = [EnsureIndex(gchat, f.ok, f.docs) EXCEPT !.search = ChatNoSearch]
    /\ Frame("gchat")

\* the Rebuild Index button: st.cache_resource.clear(); st.rerun(), and the
\* script run that follows
GChatRebuild ==
    /\ gchat.presses < MaxPresses
    /\ LET pressed == [gchat EXCEPT !.presses = @ + 1]
       IN  \E f \in Fetches(pressed) :
              gchat' = [EnsureIndex(pressed, f.ok, f.docs) EXCEPT !.search = ChatNoSearch]
    /\ Frame("gchat")

\* a script run with a prompt: index = st.session_state["graph_index"];
\* results = index.search(prompt, total_k=TOP_K_RETRIEVAL)
GChatSearch ==
    /\ \E f \in Fetches(gchat) : \E prompt \in FinalQueries :
          LET state == EnsureIndex(gchat, f.ok, f.docs)
          IN  /\ state.has_index
              /\ gchat' = [state EXCEPT !.search =
                             [ChatSearchCall(state.graph_index, prompt, TOP_K_RETRIEVAL)
                                 EXCEPT !.presses = state.presses,
                                        !.built_after = state.built_after]]
    /\ Frame("gchat")

GChatNext == GChatRun \/ GChatRebuild \/ GChatSearch


----------------------------------------------------------------------------
(* graphrag_final.py under Streamlit: load_search_engine is                 *)
(* @st.cache_resource, fetch_raw_data is @st.cache_data(ttl=3600), and the  *)
(* sidebar of main shows the status and the Clear Cache & Rebuild button.   *)
(* get_engine and the Hot Reload button of graphrag3.py have the same shape *)

\* the corpora a successful fetch can bring
LoadCorpora ==
    UNION {{FinalWideCorpus(f) : f \in [1..n -> FinalWideKinds]} : n \in 0..(MaxDocs + 1)}

\* the process before the first script run: both caches empty, nothing drawn
LoadInit ==
    \E reachable \in BOOLEAN :
        loader = [reachable |-> reachable, data |-> "absent", docs |-> <<>>,
                  resource |-> "absent", index |-> GraphRAGIndex(<<>>),
                  online |-> FALSE, button |-> FALSE]

\* fetch_raw_data(url) through st.cache_data: the cached text if there is
\* one, else requests.get, "" for a failed request; the answer is cached
FetchRawData(state, docs) ==
    IF state.data # "absent" THEN state
    ELSE IF state.reachable THEN [state EXCEPT !.data = "text", !.docs = docs]
    ELSE [state EXCEPT !.data = "empty", !.docs = <<>>]

\* load_search_engine() through st.cache_resource: the cached return value
\* if there is one (None is a value), else the body, whose return is cached
LoadSearchEngine(state, docs) ==
    IF state.resource # "absent" THEN state
    ELSE LET fetched == FetchRawData(state, docs)
         IN  IF fetched.data = "empty" THEN [fetched EXCEPT !.resource = "none"]
             ELSE [fetched EXCEPT !.resource = "index",
                                  !.index = GraphRAGIndex(fetched.docs)]

\* the sidebar of main: index = load_search_engine(); System Online and the
\* button below it, or System Offline and st.stop() before the button
Sidebar(state, docs) ==
    LET loaded == LoadSearchEngine(state, docs)
    IN  [loaded EXCEPT !.online = loaded.resource = "index",
                       !.button = loaded.resource = "index"]

\* the corpus a script run may fetch: one is drawn only if the run fetches
Fetched(state) ==
    IF state.resource = "absent" /\ state.data = "absent" /\ state.reachable
    THEN LoadCorpora ELSE {<<>>}

\* a script run: a new session, a rerun, a widget interaction
LoadRun ==
    /\ \E docs \in Fetched(loader) : loader' = Sidebar(loader, docs)
    /\ Frame("load")

\* Clear Cache & Rebuild, where the last run drew it: st.cache_resource.clear(),
\* st.cache_data.clear(), st.rerun() and the script run that follows
LoadClear ==
    /\ loader.button
    /\ LET cleared == [loader EXCEPT !.resource = "absent", !.data = "absent"]
       IN  \E docs \in Fetched(cleared) : loader' = Sidebar(cleared, docs)
    /\ Frame("load")

\* ttl=3600: the entry of fetch_raw_data expires
DataExpire ==
    /\ loader.data # "absent"
    /\ loader' = [loader EXCEPT !.data = "absent"]
    /\ Frame("load")

\* the corpus source becomes reachable, or stops being so
SourceChange ==
    /\ loader' = [loader EXCEPT !.reachable = ~@]
    /\ Frame("load")

LoadNext == LoadRun \/ LoadClear \/ DataExpire \/ SourceChange


----------------------------------------------------------------------------
(* app_graph_rag.py: parse_user_constraints, the budget a query states      *)

\* the most words of a query
MaxWords == 3

\* the words queries are made of: two of the price keywords, words with and
\* without the letter k, numbers with and without a k suffix
QueryWords ==
    { <<"u", "n", "d", "e", "r">>,
      <<"M", "a", "x">>,
      <<"l", "a", "p", "t", "o", "p">>,
      <<"w", "o", "r", "k">>,
      <<"2", "0", "0", "0">>,
      <<"5", "0", "k">>,
      <<"5", "0", "0">> }

RECURSIVE Join(_)
\* " ".join(words)
Join(words) ==
    IF Len(words) = 0 THEN <<>>
    ELSE IF Len(words) = 1 THEN words[1]
    ELSE words[1] \o <<" ">> \o Join(Tail(words))

UserQueries == {Join(words) : words \in SeqsUpTo(QueryWords, MaxWords) \ {<<>>}}

\* (?:under|below|budget|max)
PriceKeywords ==
    { <<"u", "n", "d", "e", "r">>, <<"b", "e", "l", "o", "w">>, <<"b", "u", "d", "g", "e", "t">>, <<"m", "a", "x">> }

RECURSIVE IntOf(_)
\* int(digits)
IntOf(digits) ==
    IF digits = <<>> THEN 0
    ELSE LET last == digits[Len(digits)]
             d == CHOOSE n \in 0..9 :
                     <<"0", "1", "2", "3", "4", "5", "6", "7", "8", "9">>[n + 1] = last
         IN  10 * IntOf(SubSeq(digits, 1, Len(digits) - 1)) + d

RECURSIVE SpanOf(_, _, _)
\* the end of the longest run of characters of chars that starts at i
SpanOf(s, chars, i) ==
    IF i <= Len(s) /\ s[i] \in chars THEN SpanOf(s, chars, i + 1) ELSE i

\* (?:under|below|budget|max)\s*(\d+)(?:k)? tried at position i: the keyword,
\* all the spaces after it, then at least one digit; group(1) and whether
\* the optional k matched
PriceMatchAt(s, i) ==
    LET kws == {kw \in PriceKeywords :
                   i + Len(kw) - 1 <= Len(s) /\ SubSeq(s, i, i + Len(kw) - 1) = kw}
        kw == CHOOSE k \in kws : TRUE
        from == SpanOf(s, {" "}, i + Len(kw))
        to == SpanOf(s, AsciiDigits, from)
    IN  IF kws = {} \/ to = from THEN [matched |-> FALSE, group1 |-> <<>>, k |-> FALSE]
        ELSE [matched |-> TRUE, group1 |-> SubSeq(s, from, to - 1),
              k |-> to <= Len(s) /\ s[to] = "k"]

\* re.search: the match at the leftmost position that has one
PriceSearch(s) ==
    LET at == {i \in DOMAIN s : PriceMatchAt(s, i).matched}
    IN  IF at = {} THEN PriceMatchAt(s, Len(s) + 1)
        ELSE PriceMatchAt(s, CHOOSE i \in at : \A j \in at : i <= j)

\* parse_user_constraints(query)
parse_user_constraints(query) ==
    LET price_match == PriceSearch(Lower(query))
        val == IntOf(price_match.group1)
    IN  [max_price |-> IF ~price_match.matched THEN None
                       ELSE IF Contains(<<"k">>, Lower(query)) \/ val < 1000
                       THEN val * 1000 ELSE val,
         min_ram |-> None]

NoConstraints == [parsed |-> FALSE, max_price |-> None, min_ram |-> None]

\* the query the user typed
BudgetInit == \E query \in UserQueries : budget = [query |-> query, constraints |-> NoConstraints]

\* graph_rag_search: constraints = parse_user_constraints(query)
ParseConstraints ==
    /\ budget' = [budget EXCEPT !.constraints =
                    [parsed |-> TRUE,
                     max_price |-> parse_user_constraints(budget.query).max_price,
                     min_ram |-> parse_user_constraints(budget.query).min_ram]]
    /\ Frame("budget")


----------------------------------------------------------------------------
(* fix_ratings.py: process_corpus.  A line of the corpus file is what the   *)
(* tests of the loop see of it: a block separator, a Source line naming    *)
(* StarTech, a Source line naming another shop, a Price line, a Rating line *)

\* the most lines of an input file
MaxLines == 5

LineKinds == {"---", "**Source:** StarTech", "**Source:** Daraz", "**Price:**", "**Rating:**"}

RECURSIVE ProcessFrom(_, _, _, _)
\* the loop of process_corpus from line i on; injected marks the lines the
\* loop adds (generate_dummy_rating draws the rating, which no test reads)
ProcessFrom(lines, i, is_startech_block, new_lines) ==
    IF i > Len(lines) THEN new_lines
    ELSE LET line == lines[i]
             flag == IF line = "**Source:** StarTech" THEN TRUE
                     ELSE IF line = "**Source:** Daraz" THEN FALSE
                     ELSE is_startech_block
             kept == Append(new_lines, [line |-> line, injected |-> FALSE])
         IN  IF flag /\ line = "**Price:**"
             THEN IF i + 1 <= Len(lines) /\ lines[i + 1] = "**Rating:**"
                  THEN ProcessFrom(lines, i + 1, flag, kept)
                  ELSE ProcessFrom(lines, i + 1, FALSE,
                                   Append(kept, [line |-> "**Rating:**", injected |-> TRUE]))
             ELSE ProcessFrom(lines, i + 1, flag, kept)

\* process_corpus(input_file, output_file): the lines written
process_corpus(lines) == ProcessFrom(lines, 1, FALSE, <<>>)

\* the input file
RatingsInit ==
    \E lines \in SeqsUpTo(LineKinds, MaxLines) :
        ratings = [lines |-> lines, runs |-> 0, first |-> <<>>, second |-> <<>>]

\* process_corpus(input_filename, output_filename)
ProcessCorpus ==
    /\ ratings.runs = 0
    /\ ratings' = [ratings EXCEPT !.runs = 1, !.first = process_corpus(ratings.lines)]
    /\ Frame("ratings")

\* process_corpus again, on the file the first run wrote
ProcessAgain ==
    /\ ratings.runs = 1
    /\ ratings' = [ratings EXCEPT !.runs = 2,
                     !.second = process_corpus([i \in DOMAIN ratings.first |->
                                                   ratings.first[i].line])]
    /\ Frame("ratings")

RatingsNext == ProcessCorpus \/ ProcessAgain


----------------------------------------------------------------------------
(* try_lightrag.py: split_entries, parse_entry and load_markdown_corpus.    *)
(* A text is a sequence of characters; a keyword, a title, an id or a shop  *)
(* name is one character.  The patterns are compiled from raw strings that *)
(* double every backslash, so \\s* is a backslash followed by any number   *)
(* of letters s, and \\* is any number of backslashes.  BQ is the backquote *)

\* the most product blocks of a corpus file
MaxBlocks == 3

\* what a product block says
Written == [title : {"A", "B"}, doc_id : {"d1", "d2"}, source : {"Daraz", "StarTech"}]

\* The text of a block and of the separator line after it.  "md" is the
\* layout of the module docstring; "raw" is the layout the compiled patterns
\* match
BlockText(w, layout) ==
    IF layout = "md"
    THEN <<"#", "#", " ", w.title, "\n",
           "*", "*", "DocID:", "*", "*", " ", "BQ", w.doc_id, "BQ", " ", " ",
           "*", "*", "Source:", "*", "*", " ", w.source, "\n",
           "-", "-", "-", "\n">>
    ELSE <<"#", "#", "\\", "s", w.title, "\\", "\n",
           "DocID:", "\\", "BQ", w.doc_id, "BQ", "Source:", "\\", w.source, "\\", "\n",
           "-", "-", "-", "\\", "\n">>

AtLineStart(s, i) == i = 1 \/ s[i - 1] = "\n"

\* $ under (?m)
AtLineEnd(s, i) == i = Len(s) + 1 \/ s[i] = "\n"

StartsWith(s, i, lit) ==
    i + Len(lit) - 1 <= Len(s) /\ SubSeq(s, i, i + Len(lit) - 1) = lit

\* where the match of a separator pattern that starts at i ends, 0 for no
\* match: ENTRY_SEP (?m)^---\\s*$, or (?m)^##\\s+ of the fallback
MatchEnd(s, i, rx) ==
    IF rx = "ENTRY_SEP"
    THEN IF /\ AtLineStart(s, i) /\ StartsWith(s, i, <<"-", "-", "-", "\\">>)
            /\ AtLineEnd(s, SpanOf(s, {"s"}, i + 4))
         THEN SpanOf(s, {"s"}, i + 4) ELSE 0
    ELSE IF AtLineStart(s, i) /\ StartsWith(s, i, <<"#", "#", "\\", "s">>)
         THEN SpanOf(s, {"s"}, i + 3) ELSE 0

RECURSIVE RegexSplit(_, _, _, _, _)
\* rx.split(s): the pieces between the matches, scanning from i with the
\* current piece starting at from
RegexSplit(s, i, from, rx, parts) ==
    IF i > Len(s) THEN Append(parts, SubSeq(s, from, Len(s)))
    ELSE IF MatchEnd(s, i, rx) > 0
    THEN RegexSplit(s, MatchEnd(s, i, rx), MatchEnd(s, i, rx), rx,
                    Append(parts, SubSeq(s, from, i - 1)))
    ELSE RegexSplit(s, i + 1, from, rx, parts)

\* s.strip()
Strip(s) ==
    LET inside == {j \in DOMAIN s : s[j] \notin {" ", "\n"}}
    IN  IF inside = {} THEN <<>>
        ELSE SubSeq(s, CHOOSE j \in inside : \A k \in inside : j <= k,
                       CHOOSE j \in inside : \A k \in inside : k <= j)

\* [p.strip() for p in parts if p.strip()]
Stripped(parts) ==
    LET kept == SelectSeq(parts, LAMBDA p : Strip(p) # <<>>)
    IN  [k \in DOMAIN kept |-> Strip(kept[k])]

\* split_entries(md_text)
split_entries(md_text) ==
    LET parts == Stripped(RegexSplit(md_text, 1, 1, "ENTRY_SEP", <<>>))
    IN  IF Len(parts) <= 1
        THEN Stripped(RegexSplit(md_text, 1, 1, "HEADING", <<>>))
        ELSE parts

\* TITLE_RE.search(entry), group(1) stripped, <<>> for no match:
\* (?m)^##\\s+(.+?)\\s*$ at the first line that matches, the s+ as long and
\* the group as short as a match allows
TitleOf(entry) ==
    LET Ends(x) == {e \in x..Len(entry) :
                      /\ \A k \in x..e : entry[k] # "\n"
                      /\ e + 1 <= Len(entry) /\ entry[e + 1] = "\\"
                      /\ AtLineEnd(entry, SpanOf(entry, {"s"}, e + 2))}
        Starts(i) == {x \in (i + 4)..SpanOf(entry, {"s"}, i + 3) : Ends(x) # {}}
        at == {i \in DOMAIN entry :
                 /\ AtLineStart(entry, i)
                 /\ StartsWith(entry, i, <<"#", "#", "\\", "s">>)
                 /\ Starts(i) # {}}
        i == CHOOSE a \in at : \A b \in at : a <= b
        x == CHOOSE a \in Starts(i) : \A b \in Starts(i) : b <= a
        e == CHOOSE a \in Ends(x) : \A b \in Ends(x) : a <= b
    IN  IF at = {} THEN <<>> ELSE Strip(SubSeq(entry, x, e))

\* FIELD_RE[k].search(entry), group(1) stripped, <<>> for no match.  After
\* the keyword: at least one backslash, any number of s, then for doc_id a
\* backquoted run without backquote, for the other fields a run of
\* characters other than backslash and the letter n
FieldOf(entry, k) ==
    LET keyword == IF k = "doc_id" THEN "DocID:" ELSE "Source:"
        From(p) == SpanOf(entry, {"s"}, SpanOf(entry, {"\\"}, p + 1))
        To(p) == IF k = "doc_id"
                 THEN SpanOf(entry, Range(entry) \ {"BQ"}, From(p) + 1)
                 ELSE SpanOf(entry, Range(entry) \ {"\\", "n"}, From(p))
        Matches(p) ==
            /\ entry[p] = keyword
            /\ SpanOf(entry, {"\\"}, p + 1) > p + 1
            /\ IF k = "doc_id"
               THEN /\ From(p) <= Len(entry) /\ entry[From(p)] = "BQ"
                    /\ To(p) > From(p) + 1
                    /\ To(p) <= Len(entry) /\ entry[To(p)] = "BQ"
               ELSE To(p) > From(p) \/ From(p) > SpanOf(entry, {"\\"}, p + 1)
        at == {p \in DOMAIN entry : Matches(p)}
        p == CHOOSE a \in at : \A b \in at : a <= b
    IN  IF at = {} THEN <<>>
        ELSE IF k = "doc_id" THEN Strip(SubSeq(entry, From(p) + 1, To(p) - 1))
        ELSE IF To(p) > From(p) THEN Strip(SubSeq(entry, From(p), To(p) - 1))
        ELSE <<"s">>

\* parse_entry(entry): doc_id, and title and source of the metadata; None is
\* the empty text, and "md-hash" the fallback id md-<hash(entry)>
parse_entry(entry) ==
    [doc_id |-> IF FieldOf(entry, "doc_id") # <<>> THEN FieldOf(entry, "doc_id")
                ELSE <<"md-hash">>,
     title |-> TitleOf(entry),
     source |-> FieldOf(entry, "source")]

\* the corpus file
LightragInit ==
    \E layout \in {"md", "raw"} : \E written \in SeqsUpTo(Written, MaxBlocks) :
        lightrag = [layout |-> layout, written |-> written, loaded |-> FALSE,
                    md_text |-> Flatten([i \in DOMAIN written |->
                                            BlockText(written[i], layout)]),
                    docs |-> <<>>]

\* load_markdown_corpus(path)
LoadMarkdownCorpus ==
    /\ ~lightrag.loaded
    /\ LET blocks == split_entries(lightrag.md_text)
       IN  lightrag' = [lightrag EXCEPT !.loaded = TRUE,
                          !.docs = [b \in DOMAIN blocks |-> parse_entry(blocks[b])]]
    /\ Frame("lightrag")


----------------------------------------------------------------------------
(* try_lightrag.py: insert_docs.  The workers of a chunk run as asyncio    *)
(* tasks; they differ in nothing the semaphore sees, so the state counts   *)
(* them by position: not yet gathered, waiting at `async with sem`, inside *)
(* rag.ainsert, returned                                                   *)

\* the most documents of a corpus, the largest --concurrency
MaxInsertDocs == 52
MaxConcurrency == 2

\* tasks[i:i+50]
GATHER_CHUNK == 50

\* the semaphore a chunk-sized bound alone would give
SemaphoreOfChunk(concurrency) == GATHER_CHUNK

\* asyncio.Semaphore(max(1, concurrency)): its initial value
SemaphoreOf(concurrency) == Max(1, concurrency)

\* insert_docs(rag, docs, concurrency) up to the first gather
InsertInit ==
    \E concurrency \in (0 - 1)..MaxConcurrency : \E n \in 0..MaxInsertDocs :
        insert = [concurrency |-> concurrency, sem |-> SemaphoreOf(concurrency),
                  pending |-> n, waiting |-> 0, in_flight |-> 0, returned |-> 0]

\* await asyncio.gather(*chunk): the next 50 workers become tasks, once every
\* task of the chunk before has returned
Gather ==
    /\ insert.pending > 0 /\ insert.waiting = 0 /\ insert.in_flight = 0
    /\ insert' = [insert EXCEPT !.pending = @ - Min(GATHER_CHUNK, @),
                                !.waiting = Min(GATHER_CHUNK, insert.pending)]
    /\ Frame("insert")

\* async with sem: a waiting worker acquires the semaphore and calls
\* rag.ainsert
Acquire ==
    /\ insert.waiting > 0 /\ insert.sem > 0
    /\ insert' = [insert EXCEPT !.sem = @ - 1, !.waiting = @ - 1, !.in_flight = @ + 1]
    /\ Frame("insert")

\* rag.ainsert returns or raises; leaving the async with block releases the
\* semaphore either way
Release ==
    /\ insert.in_flight > 0
    /\ insert' = [insert EXCEPT !.sem = @ + 1, !.in_flight = @ - 1, !.returned = @ + 1]
    /\ Frame("insert")

InsertNext == Gather \/ Acquire \/ Release

----------------------------------------------------------------------------
(* Specifications: one section runs, the others stay idle                  *)

InitOf(s) ==
    /\ IF s = "final" THEN FinalInit ELSE FinalIdle
    /\ IF s = "graph3" THEN G3Init ELSE G3Idle
    /\ IF s = "conc" THEN ConcInit ELSE ConcIdle
    /\ IF s = "rag2" THEN Rag2Init ELSE Rag2Idle
    /\ IF s = "raptor" THEN RaptorInit ELSE RaptorIdle
    /\ IF s = "price" THEN PriceInit ELSE PriceIdle
    /\ IF s = "session" THEN SessionInit ELSE SessionIdle
    /\ IF s = "text" THEN TextInit
       ELSE block = [docid |-> FALSE, title |-> <<>>, brand |-> <<>>, category |-> <<>>]
            /\ record = NoDoc
    /\ IF s = "twin" THEN TwinInit ELSE twin = TwinIdle
    /\ IF s = "gchat" THEN GChatInit ELSE gchat = [has_index |-> FALSE]
    /\ IF s = "load" THEN LoadInit ELSE loader = [online |-> FALSE]
    /\ IF s = "budget" THEN BudgetInit ELSE budget = [query |-> <<>>]
    /\ IF s = "ratings" THEN RatingsInit ELSE ratings = [runs |-> 0]
    /\ IF s = "lightrag" THEN LightragInit ELSE lightrag = [loaded |-> FALSE]
    /\ IF s = "insert" THEN InsertInit ELSE insert = [pending |-> 0]

SpecFinal == InitOf("final") /\ [][FinalSearch]_vars

SpecGraph3 == InitOf("graph3") /\ [][G3Search]_vars

SpecConc == InitOf("conc") /\ [][ConcNext]_vars

SpecPrice == InitOf("price") /\ [][ParsePrice]_vars

SpecSession == InitOf("session") /\ [][SessionNext]_vars

SpecText == InitOf("text") /\ [][TextNext]_vars

SpecTwin == InitOf("twin") /\ [][TwinNext]_vars

SpecGChat == InitOf("gchat") /\ [][GChatNext]_vars

SpecLoad == InitOf("load") /\ [][LoadNext]_vars

\* the user keeps using what the app offers (reruns, the button where it is
\* drawn), and the cache entry of the raw text expires; the source is free
SpecLoadFair ==
    SpecLoad /\ WF_vars(LoadRun) /\ WF_vars(LoadClear) /\ WF_vars(DataExpire)

SpecBudget == InitOf("budget") /\ [][ParseConstraints]_vars

SpecRatings == InitOf("ratings") /\ [][RatingsNext]_vars

SpecLightrag == InitOf("lightrag") /\ [][LoadMarkdownCorpus]_vars

SpecInsert == InitOf("insert") /\ [][InsertNext]_vars

\* the two engines with hard filters: a behaviour runs one of them
SpecFilters ==
    (InitOf("rag2") \/ InitOf("raptor")) /\ [][Rag2Search \/ RaptorSearch]_vars

----------------------------------------------------------------------------
(* Properties of the engines                                               *)

\* C1: the list search returns holds no two entries with the same record id.
\* Stated for GraphRAGIndex.search of graphrag_final.py, which extends
\* expanded_results with combined as it is.
C1_NoDuplicateIds ==
    search.called => NoDuplicates(IdsOf(search.expanded_results))

\* C5: when both per-source hit lists are non-empty, the first 2*N entries of
\* the interleaved list hold at most N+1 records of either source, for every
\* N >= 1 with 2*N entries in the list.
C5_SourceBalance ==
    (search.called /\ search.daraz_hits # <<>> /\ search.startech_hits # <<>>) =>
        \A N \in 1..Len(search.combined) :
            2 * N <= Len(search.combined) =>
                /\ Cardinality({i \in 1..(2 * N) :
                                  IsDaraz(search.combined[i].source)}) <= N + 1
                /\ Cardinality({i \in 1..(2 * N) :
                                  IsStartech(search.combined[i].source)}) <= N + 1

\* C6: the list search returns, graph-expansion records included, has at most
\* total_k entries.
C6_TruncatedToTopK ==
    search.called => Len(search.expanded_results) <= search.total_k

\* the ids of a graphrag3 result that are there through graph expansion only
G3GraphOnly == {i \in DOMAIN g3search.results :
                  g3search.results[i].doc_id \notin g3search.lexical}

\* C3: a record that entered the candidates through graph expansion only (no
\* positive lexical score) is never placed ahead of a record with a positive
\* lexical score.  Stated for HybridSearchEngine.search of graphrag3.py.
C3_SiblingNeverOutranksMatch ==
    g3search.called =>
        \A i, j \in DOMAIN g3search.results :
            (i \in G3GraphOnly /\ j \notin G3GraphOnly) => j < i

\* C4: the records of a result that are there because of graph expansion only
\* are never more than the documented cap, Config.GRAPH_EXPANSION_LIMIT.
C4_SiblingCap ==
    g3search.called => Cardinality(G3GraphOnly) <= GRAPH_EXPANSION_LIMIT

\* C10: searches of two sessions on the shared engine are isolated: when a
\* call has returned, every record of its result carries the score that this
\* call computed, which is the score it carries when the call runs alone.
C10_ConcurrentSearchesIsolated ==
    \A t \in Sessions :
        sess[t].pc = "returned" =>
            \A i \in DOMAIN sess[t].results :
                SameScore(shared.relevance_score[sess[t].results[i]],
                          ComputedScore(sess[t].call, i))

\* the search of rag2search without its price bound
Rag2Unfiltered ==
    Rag2SearchCall(rag2, rag2search.query,
                   [rag2search.filters EXCEPT !.max_price = None], rag2search.top_k)

\* the search of raptorsearch without its price bound
RaptorUnfiltered ==
    RaptorSearchCall(raptor.bm25, raptor.chunks, raptorsearch.query,
                     raptorsearch.top_k,
                     [raptorsearch.filters EXCEPT !.max_price = None])

\* C2: filter monotonicity as stated: for every price bound X, the records
\* returned with max_price = X are among the records returned by the same
\* search with no price filter, and each of them with a known price has a
\* price of at most X.
C2_FilterMonotonicity ==
    /\ (rag2search.called /\ rag2search.filters.max_price # None) =>
          /\ {r.doc : r \in Range(rag2search.results)}
                \subseteq {r.doc : r \in Range(Rag2Unfiltered.results)}
          /\ \A r \in Range(rag2search.results) :
                r.doc.price_value > 0 =>
                    r.doc.price_value <= rag2search.filters.max_price
    /\ (raptorsearch.called /\ raptorsearch.filters.max_price # None) =>
          /\ {r.chunk : r \in Range(raptorsearch.results)}
                \subseteq {r.chunk : r \in Range(RaptorUnfiltered.results)}
          /\ \A r \in Range(raptorsearch.results) :
                r.chunk.price_value # None =>
                    r.chunk.price_value <= raptorsearch.filters.max_price

\* C2, amended: for a price bound X > 0, every record returned with
\* max_price = X that has a known price has a price of at most X, and when the
\* same search with no price filter returns fewer than top_k records, the ids
\* of the records returned with max_price = X are among the ids it returns.
C2_FilterMonotonicityUncut ==
    /\ (rag2search.called /\ Truthy(rag2search.filters.max_price)) =>
          /\ \A r \in Range(rag2search.results) :
                r.doc.price_value > 0 =>
                    r.doc.price_value <= rag2search.filters.max_price
          /\ Len(Rag2Unfiltered.results) < rag2search.top_k =>
                {r.doc.doc_id : r \in Range(rag2search.results)}
                    \subseteq {r.doc.doc_id : r \in Range(Rag2Unfiltered.results)}
    /\ (raptorsearch.called /\ Truthy(raptorsearch.filters.max_price)) =>
          /\ \A r \in Range(raptorsearch.results) :
                r.chunk.price_value # None =>
                    r.chunk.price_value <= raptorsearch.filters.max_price
          /\ Len(RaptorUnfiltered.results) < raptorsearch.top_k =>
                {r.chunk.doc_id : r \in Range(raptorsearch.results)}
                    \subseteq {r.chunk.doc_id : r \in Range(RaptorUnfiltered.results)}

\* a search with a positive price bound that returned a priced record and
\* left out a record its unfiltered search returns uncut
C2_Witness ==
    /\ rag2search.called
    /\ Truthy(rag2search.filters.max_price)
    /\ \E r \in Range(rag2search.results) : r.doc.price_value > 0
    /\ Len(Rag2Unfiltered.results) < rag2search.top_k
    /\ Len(rag2search.results) < Len(Rag2Unfiltered.results)

\* C7: a record whose price is unknown (None) or zero passes the price stage
\* of the hard filters for every max_price value; only a min-price filter
\* excludes it on price grounds.
C7_UnknownPricePassesMaxFilter ==
    /\ (rag2search.called /\ ~Truthy(rag2search.filters.min_price)
        /\ rag2search.filters.category = <<>>) =>
          \A i \in DOMAIN rag2.products :
              rag2.products[i].price_value = 0 =>
                  i \in Range(rag2search.valid_indices)
    /\ (raptorsearch.called /\ ~Truthy(raptorsearch.filters.min_price)
        /\ raptorsearch.filters.source = "") =>
          \A i \in DOMAIN raptor.chunks :
              raptor.chunks[i].price_value \in {None, 0} =>
                  i \in Range(raptorsearch.kept)

\* the digit groups of price_str, commas and all
PriceGroups == Runs(price_str, DigitChars \cup {","})

\* price_str is two or more digit groups separated only by currency symbols
PriceGroupsRunTogether ==
    /\ Len(PriceGroups) >= 2
    /\ " " \notin Range(price_str)
    /\ \A g \in Range(PriceGroups) : Remove(g, ",") # <<>>
    /\ Len(Runs(price_str, {"taka", "T", "k"})) >= Len(PriceGroups) - 1

\* C8: for a price field of two or more digit groups separated only by
\* currency symbols, each parser returns the value of one of the groups,
\* never the number made of the digits of several groups.
C8_PriceIsOneGroup ==
    (parsed.called /\ PriceGroupsRunTogether) =>
        LET values == {Float(Remove(g, ",")) : g \in Range(PriceGroups)}
        IN  parsed.final \in values /\ parsed.rag2 \in values

\* C9: the chunk list a query is answered from was built from the product
\* list that is active at that query.
C9_IndexBuiltFromActiveCorpus ==
    chat.answered => chat.chunks = BuildIndex(chat.products).chunks

\* C11: every query is answered from a complete index: the BM25 index and
\* the chunk list that get_rag_stream reads were built by one build_index
\* call, from one product list.
C11_SearchSeesCompleteIndex ==
    chat.answered =>
        \E products \in ProductLists :
            /\ chat.bm25 = BuildIndex(products).bm25
            /\ chat.chunks = BuildIndex(products).chunks

\* C12: after the graph is built a product node is adjacent to the facet
\* nodes of the brand and the category of its records and to no other node,
\* and no product is adjacent to the facet node of a sentinel value (brand
\* 'generic', category 'general' or 'unknown').
C12_FacetEdgesSkipSentinels ==
    \A i \in DOMAIN engine.docs :
        LET id == engine.docs[i].doc_id
            own == {j \in DOMAIN engine.docs : engine.docs[j].doc_id = id}
            facets == {BrandNode(engine.docs[j].brand) : j \in own}
                          \cup {CatNode(engine.docs[j].category) : j \in own}
            sentinels == {BrandNode("generic"), CatNode("general"), CatNode("unknown")}
        IN  Range(Neighbors(engine.graph, ProductNode(id))) = facets \ sentinels

\* C13: the record ids of a loaded corpus are unique, so the id-keyed map
\* holds an entry for each record: the records of the two partitions carry
\* distinct ids and doc_map has at least as many entries as they are.
C13_RecordIdsUnique ==
    LET records == index.docs_daraz \o index.docs_startech
    IN  /\ NoDuplicates(IdsOf(records))
        /\ Cardinality(DOMAIN index.doc_map) >= Len(records)

\* C14: a block without a heading title gives no record, and the title of
\* every record the parser returns is the non-empty text of the heading line
\* of its block.
C14_UntitledBlockDropped ==
    record.parsed =>
        \A r \in {record.g3, record.final} :
            /\ block.title = <<>> => ~r.kept
            /\ r.kept => r.title # <<>> /\ r.title = block.title

\* C15: on a non-empty corpus, a query that the tokenizer gives no token for
\* makes the search return an empty list.
C15_TokenlessQueryFindsNothing ==
    (raptorsearch.called /\ raptor.chunks # <<>> /\ raptorsearch.query = <<>>) =>
        raptorsearch.results = <<>>

\* C16: building the engine from an empty record list completes without
\* raising, and every later search on that engine returns an empty list.
C16_EmptyCorpusBuilds ==
    engine.docs = <<>> =>
        /\ ~engine.raised
        /\ g3search.called => g3search.results = <<>>

\* C17: a missing semantic signal never raises to the caller of search: when
\* the embedding request fails at query time, or the corpus embeddings carry
\* no signal, search returns the candidates that passed the hard filters in
\* the order of their lexical scores.
C17_LexicalFallback ==
    rag2search.called =>
        /\ ~rag2search.raised
        /\ LET valid == rag2search.valid_indices
               bm25_full == get_scores(rag2.bm25, Tokenize(rag2search.query))
               kw_scores == [v \in DOMAIN valid |-> bm25_full[valid[v]]]
               lexical == Take(SortedIndicesDesc(kw_scores), rag2search.top_k)
               no_signal == \A i \in DOMAIN rag2.products :
                               rag2.corpus_embeddings[i][rag2search.query] = 0
           IN  (~rag2.client_up \/ no_signal) =>
                  [r \in DOMAIN rag2search.results |-> rag2search.results[r].doc]
                     = [r \in DOMAIN lexical |-> rag2.products[valid[lexical[r]]]]

\* C18: the brand of a record is (a) its lowercased Brand tag when the tag is
\* present and no placeholder (generic, other, null, empty); otherwise (b) the
\* first hyphen-split token of its title that is a known brand, and a title
\* that is a known brand is resolved to that brand; otherwise (c) the first
\* token of the title unless it is a stop-word, numeric or shorter than 3
\* characters; otherwise (d) 'generic'.
C18_BrandResolutionOrder ==
    (record.parsed /\ block.docid /\ block.title # <<>>) =>
        LET tag == Lower(block.brand)
            placeholders == {Generic, <<"o", "t", "h", "e", "r">>, <<"n", "u", "l", "l">>, <<>>}
            tokens == G3Tokenize(block.title)
            known == SelectSeq(tokens, LAMBDA token : token \in KNOWN_BRANDS)
            expected ==
                IF tag \notin placeholders THEN tag
                ELSE IF known # <<>> THEN known[1]
                ELSE IF /\ tokens # <<>>
                        /\ tokens[1] \notin G3_STOP_WORDS
                        /\ ~(Range(tokens[1]) \subseteq AsciiDigits)
                        /\ Len(tokens[1]) >= 3
                THEN tokens[1]
                ELSE Generic
        IN  \A r \in {record.g3, record.final} :
                /\ r.brand = expected
                /\ (tag \in placeholders /\ Lower(block.title) \in KNOWN_BRANDS) =>
                       r.brand = Lower(block.title)

\* C19: tokenization is hyphen- and case-insensitive: each tokenizer gives
\* the same token list for a text, for its lower-case form, and for the text
\* with a space in the place of every hyphen, so a query written in one form
\* has the tokens of a document indexed in the other.
C19_HyphenAndCaseInsensitive ==
    record.tokenized =>
        /\ record.tokens = record.spaced
        /\ record.tokens = [g3 |-> G3Tokenize(Lower(block.title)),
                            final |-> FinalTokenize(Lower(block.title)),
                            chat |-> ChatTokenize(Lower(block.title))]

\* C20: attribute extraction on the title 'Samsung Galaxy S21 8GB' with the
\* category 'smartphones' gives the facet map {Brand: 'samsung', RAM: '8GB'}
\* and nothing else, on every call.
C20_SamsungFacets ==
    (/\ record.extracted
     /\ block.title = SamsungTitle
     /\ block.category = <<"s", "m", "a", "r", "t", "p", "h", "o", "n", "e", "s">>) =>
        record.specs = ("Brand" :> <<"s", "a", "m", "s", "u", "n", "g">>)
                           @@ ("RAM" :> <<"8", "G", "B">>)

C22_MissedSiblings ==
    LET self == gchat.graph_index
        walk == Flatten([s \in DOMAIN gchat.search.seeds |->
                           SiblingWalk(self.graph, gchat.search.seeds[s].doc_id)])
    IN  {w.sib : w \in {v \in Range(walk) : v.sib # v.seed}}
            \cap (DOMAIN self.doc_map \ Range(IdsOf(gchat.search.combined_candidates)))

\* C22: whenever a seed hit has a sibling that is in the record map and is
\* not among the keyword hits, at least one such sibling is in the result
\* (after the keyword hits), and at most 5 records follow the keyword hits
C22_SiblingsRecovered ==
    gchat.search.called =>
        /\ C22_MissedSiblings # {} =>
              \E i \in DOMAIN gchat.search.final_results :
                  gchat.search.final_results[i].doc_id \in C22_MissedSiblings
        /\ Len(gchat.search.final_results)
              <= Len(gchat.search.combined_candidates) + 5

\* C23: every record of the corpus is in exactly one of docs_daraz and
\* docs_startech
C23_EveryRecordInOneList ==
    \A id \in DOMAIN index.doc_map :
        (index.doc_map[id] \in Range(index.docs_daraz))
            # (index.doc_map[id] \in Range(index.docs_startech))

\* C25: a search made after a press of Rebuild Index is answered by an index
\* constructed after that press
C25_SearchUsesRebuiltIndex ==
    gchat.search.called => gchat.search.built_after = gchat.search.presses

\* C24: once the cached load has failed and the corpus source is reachable
\* for good, the user's actions (rerun, the rebuild button) eventually bring
\* the app online
C24_RecoversFromFailedLoad ==
    (loader.resource = "none" /\ [](loader.reachable)) ~> loader.online

\* C26: for a query in which a price keyword is followed by a number N,
\* max_price is N when N >= 1000 and N has no k suffix, and N * 1000 only
\* when N has a k suffix or N < 1000, whatever the other words are
C26_BudgetFromNumber ==
    LET price_match == PriceSearch(Lower(budget.query))
        N == IntOf(price_match.group1)
    IN  budget.constraints.parsed /\ price_match.matched =>
            budget.constraints.max_price =
                IF price_match.k \/ N < 1000 THEN N * 1000 ELSE N

\* the lines of the product block that holds line i of file: those between
\* the separators around it
C27_BlockOf(file, i) ==
    {j \in DOMAIN file :
        \A k \in Min(i, j)..Max(i, j) : file[k].line # "---"}

\* C27: a Rating line is inserted only into a block whose source is StarTech
C27_RatingOnlyInStarTech ==
    \A i \in DOMAIN ratings.first :
        ratings.first[i].injected =>
            \E j \in C27_BlockOf(ratings.first, i) :
                ratings.first[j].line = "**Source:** StarTech"

\* C28: a second run on the output of the first inserts no Rating line
C28_SecondRunAddsNothing ==
    ratings.runs = 2 => \A i \in DOMAIN ratings.second : ~ratings.second[i].injected

\* C29: for a corpus of N >= 2 blocks in the documented layout, each with a
\* "## " title line and followed by a "---" line, load_markdown_corpus gives
\* N documents, each with the doc_id, title and source of its own block
C29_OneDocumentPerProduct ==
    lightrag.loaded /\ lightrag.layout = "md" /\ Len(lightrag.written) >= 2 =>
        /\ Len(lightrag.docs) = Len(lightrag.written)
        /\ \A i \in DOMAIN lightrag.docs :
              /\ lightrag.docs[i].doc_id = <<lightrag.written[i].doc_id>>
              /\ lightrag.docs[i].title = <<lightrag.written[i].title>>
              /\ lightrag.docs[i].source = <<lightrag.written[i].source>>

\* C30: never more than max(1, concurrency) rag.ainsert calls are in flight,
\* for every document list and every concurrency value, 0 and negative ones
\* included
C30_BoundedConcurrency ==
    insert.in_flight <= (IF insert.concurrency > 1 THEN insert.concurrency ELSE 1)

\* a non-positive --concurrency with one call in flight and workers waiting,
\* in a chunk after the first
C30_Witness ==
    /\ insert.concurrency <= 0
    /\ insert.in_flight = 1
    /\ insert.waiting > 0
    /\ insert.returned >= GATHER_CHUNK

====
